---- MODULE Spec2Model ----
(***************************************************************************)
(* TransDB server request engine (transdb-server/src/lib.rs): the DbState  *)
(* (store, idempotency cache, global version counter) and the three        *)
(* handlers GET | PUT | DELETE /keys/{key}.                                 *)
(*                                                                         *)
(* Spec     : one request in flight at a time; each handler call is one    *)
(*            action (preamble, lock, state machine, response).            *)
(* SpecConc : several handler tasks in flight; a task suspends only at the *)
(*            lock acquisition, and the statements of the critical section *)
(*            are separate steps taken while the guard is held.            *)
(***************************************************************************)
EXTENDS Integers, Sequences, FiniteSets, TLC

VARIABLES
    role,               \* AppState.role
    now,                \* the value Clock::unix_now_secs returns
    store,              \* DbState.store: key -> Entry
    idempotency_cache,  \* DbState.idempotency_cache: token -> IdempotencyRecord
    next_version,       \* DbState.next_version
    last,               \* the handler call that returned last: request and response
    writes,             \* log of the fresh 200 responses given to PUT and DELETE
    tasks,              \* SpecConc: the handler tasks in flight
    lock,               \* SpecConc: the RwLock around DbState
    instant,            \* stress tests: the value Instant::now() returns
    workers,            \* stress tests: the operation each client has in flight
    history,            \* stress tests: History, the OpRecords
    violations,         \* stress tests: what check_correctness returned, once it ran
    reachable,          \* client: whether a connection to the target address can be made
    call,               \* client: the method call of the client, in flight or returned
    served              \* SpecReplay: the requests answered so far, each with its response

dbVars   == <<store, idempotency_cache, next_version>>
concVars == <<tasks, lock>>
stressVars == <<instant, workers, history, violations>>
clientVars == <<reachable, call>>
vars     == <<role, now, store, idempotency_cache, next_version, last, writes, tasks, lock,
             instant, workers, history, violations, reachable, call, served>>

----------------------------------------------------------------------------
(* Program constants *)

MAX_KEY_SIZE       == 1024
MAX_VALUE_SIZE     == 4194304
TOMBSTONE_TTL_SECS == 3600

----------------------------------------------------------------------------
(* Option<T> and the inputs the requests are drawn from *)

\* Option<T>: None is the empty sequence, Some(x) the one-element sequence.
None    == <<>>
Some(x) == <<x>>
IsSome(o) == o # <<>>
Unwrap(o) == o[1]

\* Keys by name; KeyLen gives each its length in bytes. "kmax" is exactly
\* MAX_KEY_SIZE long, "kover" one byte longer.
StoreKeys == {"k", "kmax"}
AllKeys   == StoreKeys \cup {"kover"}
KeyLen(key) ==
    CASE key = "k"     -> 1
      [] key = "kmax"  -> MAX_KEY_SIZE
      [] key = "kover" -> MAX_KEY_SIZE + 1

\* Bodies by name; BodyLen gives each its length in bytes.
Values    == {"a", "bmax"}
AllBodies == Values \cup {"bover", "bhuge"}
BodyLen(body) ==
    CASE body = "a"     -> 1
      [] body = "bmax"  -> MAX_VALUE_SIZE
      [] body = "bover" -> MAX_VALUE_SIZE + 1
      [] body = "bhuge" -> MAX_VALUE_SIZE + 2
      [] body = "b"     -> 1

Tokens == {"t1", "t2", "t3"}

\* X-TTL header values as character sequences: "2" parses, "-1" does not.
TtlGood == <<"2">>
TtlBad  == <<"-", "1">>

\* What a well-formed PUT carries: <<body, X-TTL header>>
Payloads == {<<"a", None>>, <<"bmax", Some(TtlGood)>>}

\* Clock readings. 3602 = 2 + TOMBSTONE_TTL_SECS.
Times == {1, 2, 3602}

Roles == {"Primary", "Replica"}

----------------------------------------------------------------------------
(* Data model *)

\* Entry { value: Option<Bytes>, version, expires_at: Option<u64> }
Entry(value, version, expires_at) ==
    [value |-> value, version |-> version, expires_at |-> expires_at]

\* IdempotencyRecord { method, key_path, status_code, etag } (created_at is never read)
IdempotencyRecord(method, key_path, etag) ==
    [method |-> method, key_path |-> key_path, status_code |-> 200, etag |-> etag]

DbState(s, c, n) == [store |-> s, idempotency_cache |-> c, next_version |-> n]

\* HashMap::insert
MapInsert(m, k, v) == [x \in (DOMAIN m) \cup {k} |-> IF x = k THEN v ELSE m[x]]

\* HashMap::new
EmptyMap == [x \in {} |-> None]

\* Mutant: the instant equal to expires_at is not yet expired.
is_expired_Strict(entry, clock) ==
    IF entry.expires_at = None THEN FALSE ELSE clock > Unwrap(entry.expires_at)

\* Entry::is_expired
is_expired(entry, clock) ==
    IF entry.expires_at = None THEN FALSE ELSE clock >= Unwrap(entry.expires_at)

----------------------------------------------------------------------------
(* Responses *)

DigitChars == <<"0", "1", "2", "3", "4", "5", "6", "7", "8", "9">>

\* format!("{}", n) for a u64
RECURSIVE Decimal(_)
Decimal(n) ==
    IF n < 10 THEN <<DigitChars[n + 1]>>
    ELSE Decimal(n \div 10) \o <<DigitChars[(n % 10) + 1]>>

\* etag_value: the quoted decimal version
etag_value(version) == <<"\"">> \o Decimal(version) \o <<"\"">>

Response(status, etag, body, expired, error) ==
    [status |-> status, etag |-> etag, body |-> body, x_expired |-> expired, error |-> error]

error_response(status, message) == Response(status, None, None, FALSE, message)

MsgReplica    == <<"Replica does not accept key operations">>
MsgKeySize    == <<"Key exceeds maximum size of 1024 bytes">>
MsgValueSize  == <<"Value exceeds maximum size of 4194304 bytes">>
MsgTtl        == <<"X-TTL must be a non-negative integer">>
MsgIdemNeeded == <<"Idempotency-Key header is required">>
MsgLock       == <<"Server error: Lock acquisition timed out">>
MsgMismatch   == <<"Idempotency-Key was already used for a different method or key path">>
\* format!("Key not found: {}", key)
MsgNotFound(key) == <<"Key not found: ", key>>

\* StatusCode::OK.into_response() with the ETag header inserted
OkWithEtag(version) == Response(200, Some(etag_value(version)), None, FALSE, <<>>)

NoContent == Response(204, None, None, FALSE, <<>>)

----------------------------------------------------------------------------
(* Header parsing *)

IsDigit(c) == \E i \in 1..10 : DigitChars[i] = c
DigitVal(c) == (CHOOSE i \in 1..10 : DigitChars[i] = c) - 1

RECURSIVE DigitsValue(_)
DigitsValue(chars) ==
    IF chars = <<>> THEN 0
    ELSE 10 * DigitsValue(SubSeq(chars, 1, Len(chars) - 1)) + DigitVal(chars[Len(chars)])

\* str::parse::<u64>: an optional '+', then one or more decimal digits
parse_u64(chars) ==
    LET digits == IF chars # <<>> /\ Head(chars) = "+" THEN Tail(chars) ELSE chars
    IN  IF digits = <<>> \/ (\E i \in 1..Len(digits) : ~IsDigit(digits[i]))
        THEN None
        ELSE Some(DigitsValue(digits))

\* str::trim_matches('"')
RECURSIVE trim_quotes(_)
trim_quotes(chars) ==
    IF chars # <<>> /\ Head(chars) = "\""
    THEN trim_quotes(Tail(chars))
    ELSE IF chars # <<>> /\ chars[Len(chars)] = "\""
    THEN trim_quotes(SubSeq(chars, 1, Len(chars) - 1))
    ELSE chars

\* parse_etag of the client (response_version of the server tests): Option<u64>
parse_etag(resp) ==
    IF resp.etag = None THEN None ELSE parse_u64(trim_quotes(Unwrap(resp.etag)))

\* headers: [idempotency_key : Option<token>, x_ttl : Option<chars>]
Headers(idempotency_key, x_ttl) == [idempotency_key |-> idempotency_key, x_ttl |-> x_ttl]

\* Result<String, Response>, as [ok, value, err]
extract_idempotency_key(headers) ==
    IF IsSome(headers.idempotency_key)
    THEN [ok |-> TRUE, value |-> Unwrap(headers.idempotency_key), err |-> NoContent]
    ELSE [ok |-> FALSE, value |-> "", err |-> error_response(400, MsgIdemNeeded)]

----------------------------------------------------------------------------
(* Idempotent replay *)

\* Mutant: the key path of the record is not compared.
verify_and_build_cached_put_AnyKey(record, key) ==
    IF record.method # "PUT"
    THEN error_response(422, MsgMismatch)
    ELSE Response(200, IF IsSome(record.etag) THEN Some(etag_value(Unwrap(record.etag))) ELSE None,
                  None, FALSE, <<>>)

verify_and_build_cached_put(record, key) ==
    IF record.method # "PUT" \/ record.key_path # key
    THEN error_response(422, MsgMismatch)
    ELSE Response(200, IF IsSome(record.etag) THEN Some(etag_value(Unwrap(record.etag))) ELSE None,
                  None, FALSE, <<>>)

verify_and_build_cached_delete(record, key) ==
    IF record.method # "DELETE" \/ record.key_path # key
    THEN error_response(422, MsgMismatch)
    ELSE OkWithEtag(Unwrap(record.etag))

----------------------------------------------------------------------------
(* The statements of the critical sections, on a DbState value *)

\* Mutant: the increment is lost.
BumpVersion_Lost(db) == db

\* db_guard.next_version += 1
BumpVersion(db) == [db EXCEPT !.next_version = @ + 1]

\* Mutant: an existing entry is kept (entry().or_insert instead of insert).
StoreInsert_KeepsExisting(db, key, entry) ==
    IF key \in DOMAIN db.store THEN db ELSE [db EXCEPT !.store = MapInsert(@, key, entry)]

\* db_guard.store.insert(key, entry)
StoreInsert(db, key, entry) == [db EXCEPT !.store = MapInsert(@, key, entry)]

\* Mutant: the cache keeps the newest record only.
CacheInsert_KeepsNewestOnly(db, idempotency_key, record) ==
    [db EXCEPT !.idempotency_cache = MapInsert(EmptyMap, idempotency_key, record)]

\* db_guard.idempotency_cache.insert(idempotency_key, record)
CacheInsert(db, idempotency_key, record) ==
    [db EXCEPT !.idempotency_cache = MapInsert(@, idempotency_key, record)]

\* What a handler call yields: the DbState it leaves, its response, and whether it
\* took the fresh (writing) path.
Outcome(db, resp, fresh) == [db |-> db, resp |-> resp, fresh |-> fresh]

\* Mutant: only an absent key is a miss; a tombstone is served.
get_locked_ServesTombstone(db, key, clock) ==
    IF key \notin DOMAIN db.store
    THEN error_response(404, MsgNotFound(key))
    ELSE LET entry == db.store[key]
         IN  Response(200, Some(etag_value(entry.version)), entry.value,
                      is_expired(entry, clock), <<>>)

\* handle_get under the read guard
get_locked(db, key, clock) ==
    IF key \notin DOMAIN db.store \/ db.store[key].value = None
    THEN error_response(404, MsgNotFound(key))
    ELSE LET entry == db.store[key]
         IN  Response(200, Some(etag_value(entry.version)), Some(Unwrap(entry.value)),
                      is_expired(entry, clock), <<>>)

\* Mutant: the idempotency cache is not consulted.
put_locked_NoReplay(db, key, idempotency_key, body, expires_at) ==
    LET d1      == BumpVersion(db)
        version == d1.next_version
        d2      == StoreInsert(d1, key, Entry(Some(body), version, expires_at))
        d3      == CacheInsert(d2, idempotency_key,
                               IdempotencyRecord("PUT", key, Some(version)))
    IN  Outcome(d3, OkWithEtag(version), TRUE)

\* Mutant: a PUT without X-TTL keeps the expires_at of the entry it replaces.
put_locked_KeepsTtl(db, key, idempotency_key, body, expires_at) ==
    IF idempotency_key \in DOMAIN db.idempotency_cache
    THEN Outcome(db, verify_and_build_cached_put(db.idempotency_cache[idempotency_key], key), FALSE)
    ELSE LET d1      == BumpVersion(db)
             version == d1.next_version
             kept    == IF expires_at = None /\ key \in DOMAIN db.store
                        THEN db.store[key].expires_at ELSE expires_at
             d2      == StoreInsert(d1, key, Entry(Some(body), version, kept))
             d3      == CacheInsert(d2, idempotency_key,
                                    IdempotencyRecord("PUT", key, Some(version)))
         IN  Outcome(d3, OkWithEtag(version), TRUE)

\* handle_put under the write guard
put_locked(db, key, idempotency_key, body, expires_at) ==
    IF idempotency_key \in DOMAIN db.idempotency_cache
    THEN Outcome(db, verify_and_build_cached_put(db.idempotency_cache[idempotency_key], key), FALSE)
    ELSE LET d1      == BumpVersion(db)
             version == d1.next_version
             d2      == StoreInsert(d1, key, Entry(Some(body), version, expires_at))
             d3      == CacheInsert(d2, idempotency_key,
                                    IdempotencyRecord("PUT", key, Some(version)))
         IN  Outcome(d3, OkWithEtag(version), TRUE)

\* Mutant: the idempotency cache is not consulted.
delete_locked_NoReplay(db, key, idempotency_key, clock) ==
    IF key \notin DOMAIN db.store \/ db.store[key].value = None
    THEN Outcome(db, NoContent, FALSE)
    ELSE LET d1      == BumpVersion(db)
             version == d1.next_version
             d2      == StoreInsert(d1, key, Entry(None, version, Some(clock + TOMBSTONE_TTL_SECS)))
             d3      == CacheInsert(d2, idempotency_key,
                                    IdempotencyRecord("DELETE", key, Some(version)))
         IN  Outcome(d3, OkWithEtag(version), TRUE)

\* Mutant: only an absent key is a no-op; a tombstone is deleted again.
delete_locked_Retombstones(db, key, idempotency_key, clock) ==
    IF idempotency_key \in DOMAIN db.idempotency_cache
    THEN Outcome(db, verify_and_build_cached_delete(db.idempotency_cache[idempotency_key], key), FALSE)
    ELSE IF key \notin DOMAIN db.store
    THEN Outcome(db, NoContent, FALSE)
    ELSE LET d1      == BumpVersion(db)
             version == d1.next_version
             d2      == StoreInsert(d1, key, Entry(None, version, Some(clock + TOMBSTONE_TTL_SECS)))
             d3      == CacheInsert(d2, idempotency_key,
                                    IdempotencyRecord("DELETE", key, Some(version)))
         IN  Outcome(d3, OkWithEtag(version), TRUE)

\* Mutant: the tombstone expires TOMBSTONE_TTL_SECS after the epoch, not after now.
delete_locked_TtlFromEpoch(db, key, idempotency_key, clock) ==
    IF idempotency_key \in DOMAIN db.idempotency_cache
    THEN Outcome(db, verify_and_build_cached_delete(db.idempotency_cache[idempotency_key], key), FALSE)
    ELSE IF key \notin DOMAIN db.store \/ db.store[key].value = None
    THEN Outcome(db, NoContent, FALSE)
    ELSE LET d1      == BumpVersion(db)
             version == d1.next_version
             d2      == StoreInsert(d1, key, Entry(None, version, Some(TOMBSTONE_TTL_SECS)))
             d3      == CacheInsert(d2, idempotency_key,
                                    IdempotencyRecord("DELETE", key, Some(version)))
         IN  Outcome(d3, OkWithEtag(version), TRUE)

\* Mutant: an entry whose TTL has passed counts as absent.
delete_locked_ExpiredIsAbsent(db, key, idempotency_key, clock) ==
    IF idempotency_key \in DOMAIN db.idempotency_cache
    THEN Outcome(db, verify_and_build_cached_delete(db.idempotency_cache[idempotency_key], key), FALSE)
    ELSE IF \/ key \notin DOMAIN db.store
            \/ db.store[key].value = None
            \/ is_expired(db.store[key], clock)
    THEN Outcome(db, NoContent, FALSE)
    ELSE LET d1      == BumpVersion(db)
             version == d1.next_version
             d2      == StoreInsert(d1, key, Entry(None, version, Some(clock + TOMBSTONE_TTL_SECS)))
             d3      == CacheInsert(d2, idempotency_key,
                                    IdempotencyRecord("DELETE", key, Some(version)))
         IN  Outcome(d3, OkWithEtag(version), TRUE)

\* Mutant: the no-op DELETE records its token.
delete_locked_RecordsNoOp(db, key, idempotency_key, clock) ==
    IF idempotency_key \in DOMAIN db.idempotency_cache
    THEN Outcome(db, verify_and_build_cached_delete(db.idempotency_cache[idempotency_key], key), FALSE)
    ELSE IF key \notin DOMAIN db.store \/ db.store[key].value = None
    THEN Outcome(CacheInsert(db, idempotency_key, IdempotencyRecord("DELETE", key, None)),
                 NoContent, FALSE)
    ELSE LET d1      == BumpVersion(db)
             version == d1.next_version
             d2      == StoreInsert(d1, key, Entry(None, version, Some(clock + TOMBSTONE_TTL_SECS)))
             d3      == CacheInsert(d2, idempotency_key,
                                    IdempotencyRecord("DELETE", key, Some(version)))
         IN  Outcome(d3, OkWithEtag(version), TRUE)

\* Mutant: the no-op check runs before the lookup of the token.
delete_locked_NoOpFirst(db, key, idempotency_key, clock) ==
    IF key \notin DOMAIN db.store \/ db.store[key].value = None
    THEN Outcome(db, NoContent, FALSE)
    ELSE IF idempotency_key \in DOMAIN db.idempotency_cache
    THEN Outcome(db, verify_and_build_cached_delete(db.idempotency_cache[idempotency_key], key), FALSE)
    ELSE LET d1      == BumpVersion(db)
             version == d1.next_version
             d2      == StoreInsert(d1, key, Entry(None, version, Some(clock + TOMBSTONE_TTL_SECS)))
             d3      == CacheInsert(d2, idempotency_key,
                                    IdempotencyRecord("DELETE", key, Some(version)))
         IN  Outcome(d3, OkWithEtag(version), TRUE)

\* handle_delete under the write guard
delete_locked(db, key, idempotency_key, clock) ==
    IF idempotency_key \in DOMAIN db.idempotency_cache
    THEN Outcome(db, verify_and_build_cached_delete(db.idempotency_cache[idempotency_key], key), FALSE)
    ELSE IF key \notin DOMAIN db.store \/ db.store[key].value = None
    THEN Outcome(db, NoContent, FALSE)
    ELSE LET d1      == BumpVersion(db)
             version == d1.next_version
             d2      == StoreInsert(d1, key, Entry(None, version, Some(clock + TOMBSTONE_TTL_SECS)))
             d3      == CacheInsert(d2, idempotency_key,
                                    IdempotencyRecord("DELETE", key, Some(version)))
         IN  Outcome(d3, OkWithEtag(version), TRUE)

----------------------------------------------------------------------------
(* The preambles: the checks before the lock. Option<Response>: Some(error) or None *)

get_preamble(r, key) ==
    IF r = "Replica" THEN Some(error_response(405, MsgReplica))
    ELSE IF KeyLen(key) > MAX_KEY_SIZE THEN Some(error_response(400, MsgKeySize))
    ELSE None

\* Mutant: the role is looked at after the key size.
put_preamble_RoleAfterKey(r, key, headers, body) ==
    IF KeyLen(key) > MAX_KEY_SIZE THEN Some(error_response(400, MsgKeySize))
    ELSE IF r = "Replica" THEN Some(error_response(405, MsgReplica))
    ELSE IF BodyLen(body) > MAX_VALUE_SIZE THEN Some(error_response(400, MsgValueSize))
    ELSE IF IsSome(headers.x_ttl) /\ parse_u64(Unwrap(headers.x_ttl)) = None
         THEN Some(error_response(400, MsgTtl))
    ELSE IF ~extract_idempotency_key(headers).ok THEN Some(extract_idempotency_key(headers).err)
    ELSE None

\* Mutant: the Idempotency-Key is looked for before the sizes and the X-TTL.
put_preamble_TokenFirst(r, key, headers, body) ==
    IF r = "Replica" THEN Some(error_response(405, MsgReplica))
    ELSE IF ~extract_idempotency_key(headers).ok THEN Some(extract_idempotency_key(headers).err)
    ELSE IF KeyLen(key) > MAX_KEY_SIZE THEN Some(error_response(400, MsgKeySize))
    ELSE IF BodyLen(body) > MAX_VALUE_SIZE THEN Some(error_response(400, MsgValueSize))
    ELSE IF IsSome(headers.x_ttl) /\ parse_u64(Unwrap(headers.x_ttl)) = None
         THEN Some(error_response(400, MsgTtl))
    ELSE None

put_preamble(r, key, headers, body) ==
    IF r = "Replica" THEN Some(error_response(405, MsgReplica))
    ELSE IF KeyLen(key) > MAX_KEY_SIZE THEN Some(error_response(400, MsgKeySize))
    ELSE IF BodyLen(body) > MAX_VALUE_SIZE THEN Some(error_response(400, MsgValueSize))
    ELSE IF IsSome(headers.x_ttl) /\ parse_u64(Unwrap(headers.x_ttl)) = None
         THEN Some(error_response(400, MsgTtl))
    ELSE IF ~extract_idempotency_key(headers).ok THEN Some(extract_idempotency_key(headers).err)
    ELSE None

\* let expires_at = match headers.get("x-ttl") ...
put_expires_at(headers) ==
    IF headers.x_ttl = None THEN None ELSE parse_u64(Unwrap(headers.x_ttl))

delete_preamble(r, key, headers) ==
    IF r = "Replica" THEN Some(error_response(405, MsgReplica))
    ELSE IF KeyLen(key) > MAX_KEY_SIZE THEN Some(error_response(400, MsgKeySize))
    ELSE IF ~extract_idempotency_key(headers).ok THEN Some(extract_idempotency_key(headers).err)
    ELSE None

----------------------------------------------------------------------------
(* The handlers as functions of (DbState, request, clock), the lock being free *)

\* Mutant: a GET that finds the entry expired removes it from the store.
handle_get_PurgesExpired(db, r, key, clock) ==
    IF IsSome(get_preamble(r, key))
    THEN Outcome(db, Unwrap(get_preamble(r, key)), FALSE)
    ELSE Outcome(IF key \in DOMAIN db.store /\ is_expired(db.store[key], clock)
                 THEN [db EXCEPT !.store = [k \in DOMAIN db.store \ {key} |-> db.store[k]]]
                 ELSE db,
                 get_locked(db, key, clock), FALSE)

handle_get(db, r, key, clock) ==
    IF IsSome(get_preamble(r, key))
    THEN Outcome(db, Unwrap(get_preamble(r, key)), FALSE)
    ELSE Outcome(db, get_locked(db, key, clock), FALSE)

\* Mutant: a recorded token is replayed before the body and the X-TTL are validated.
handle_put_ReplayFirst(db, r, key, headers, body) ==
    IF /\ r = "Primary"
       /\ extract_idempotency_key(headers).ok
       /\ extract_idempotency_key(headers).value \in DOMAIN db.idempotency_cache
    THEN Outcome(db, verify_and_build_cached_put(
                        db.idempotency_cache[extract_idempotency_key(headers).value], key), FALSE)
    ELSE IF IsSome(put_preamble(r, key, headers, body))
    THEN Outcome(db, Unwrap(put_preamble(r, key, headers, body)), FALSE)
    ELSE put_locked(db, key, extract_idempotency_key(headers).value, body, put_expires_at(headers))

handle_put(db, r, key, headers, body) ==
    IF IsSome(put_preamble(r, key, headers, body))
    THEN Outcome(db, Unwrap(put_preamble(r, key, headers, body)), FALSE)
    ELSE put_locked(db, key, extract_idempotency_key(headers).value, body, put_expires_at(headers))

handle_delete(db, r, key, headers, clock) ==
    IF IsSome(delete_preamble(r, key, headers))
    THEN Outcome(db, Unwrap(delete_preamble(r, key, headers)), FALSE)
    ELSE delete_locked(db, key, extract_idempotency_key(headers).value, clock)

----------------------------------------------------------------------------
(* The router in front of handle_put: the request body limit *)

\* Mutant: the limit axum applies when no DefaultBodyLimit layer is set (2 MB).
DefaultBodyLimit_Unset == 2 * 1024 * 1024

\* .layer(DefaultBodyLimit::max(MAX_VALUE_SIZE + 1))
DefaultBodyLimit == MAX_VALUE_SIZE + 1

\* The rejection of the Bytes extractor for a body beyond the limit
PayloadTooLarge == Response(413, None, None, FALSE, <<"length limit exceeded">>)

\* PUT /keys/:key as routed: the body is buffered up to the limit, then handle_put runs
route_put(db, r, key, headers, body) ==
    IF BodyLen(body) > DefaultBodyLimit
    THEN Outcome(db, PayloadTooLarge, FALSE)
    ELSE handle_put(db, r, key, headers, body)

----------------------------------------------------------------------------
(* State *)

Db == DbState(store, idempotency_cache, next_version)

SetDb(db) ==
    /\ store' = db.store
    /\ idempotency_cache' = db.idempotency_cache
    /\ next_version' = db.next_version

\* The call that returned: method, key, Idempotency-Key header, response
Call(op, key, idempotency_key, resp) ==
    [op |-> op, key |-> key, idempotency_key |-> idempotency_key, resp |-> resp]

NoCall == Call("none", "", None, NoContent)

\* One line of the log of fresh 200 responses: what the client sent and the ETag it got
Write(method, key, token, value, etag) ==
    [method |-> method, key |-> key, token |-> token, value |-> value, etag |-> etag]

Logged(op, key, headers, body, out) ==
    IF out.fresh
    THEN Append(writes, Write(op, key, Unwrap(headers.idempotency_key), body, out.resp.etag))
    ELSE writes

\* AppState::new
InitServer ==
    /\ role \in Roles
    /\ now \in Times
    /\ store = EmptyMap
    /\ idempotency_cache = EmptyMap
    /\ next_version = 0
    /\ last = NoCall
    /\ writes = <<>>

\* OpOutcome (OpKind is the outcome's operation: the worker records them together)
PutOk(version, value) == [tag |-> "PutOk", version |-> version, value |-> value]
GetOk(version, value) == [tag |-> "GetOk", version |-> version, value |-> value]
DeleteOk(version)     == [tag |-> "DeleteOk", version |-> version]
NotFound              == [tag |-> "NotFound"]
Error                 == [tag |-> "Error"]

\* OpRecord
OpRecord(client_start_ts, client_ack_ts, key, kind, outcome) ==
    [client_start_ts |-> client_start_ts, client_ack_ts |-> client_ack_ts,
     key |-> key, kind |-> kind, outcome |-> outcome]

\* The clients of the stress run
NumWorkers == 2
WorkerIds  == 1..NumWorkers

\* A client between operations, and a client inside execute_op: the operation, the
\* instant it started, and what the client library returned once it did
IdleWorker == [pc |-> "idle"]
Worker(pc, kind, key, value, token, op_start, outcome) ==
    [pc |-> pc, kind |-> kind, key |-> key, value |-> value, token |-> token,
     op_start |-> op_start, outcome |-> outcome]

\* No stress run
\* No client call made yet
NoClientCall == [pc |-> "idle", n |-> 0]

\* Client::new: nothing sent yet
InitClient ==
    /\ reachable = TRUE
    /\ call = NoClientCall
    /\ served = <<>>

InitStress ==
    /\ instant = 0
    /\ workers = [w \in WorkerIds |-> IdleWorker]
    /\ history = <<>>
    /\ violations = None
    /\ InitClient

\* Handler tasks of SpecConc
NumTasks == 2
TaskIds  == 1..NumTasks

\* A task: where it is in its handler, its request, and the local `version`
Task(pc, op, key, idempotency_key, body, expires_at, version) ==
    [pc |-> pc, op |-> op, key |-> key, idempotency_key |-> idempotency_key,
     body |-> body, expires_at |-> expires_at, version |-> version]

Idle == Task("idle", "none", "", "", None, None, 0)

\* RwLock: the task holding the write guard (at most one), the tasks holding read guards
FreeLock == [writer |-> {}, readers |-> {}]

Init ==
    /\ InitServer
    /\ tasks = [t \in TaskIds |-> Idle]
    /\ lock = FreeLock
    /\ InitStress

----------------------------------------------------------------------------
(* Spec: one handler call per step *)

PutReq(key, idempotency_key, x_ttl, body) ==
    [key |-> key, headers |-> Headers(idempotency_key, x_ttl), body |-> body]

\* Well-formed requests, and requests failing one or several preamble checks
PutRequests ==
    {PutReq(key, Some(t), p[2], p[1]) : key \in StoreKeys, t \in Tokens, p \in Payloads}
    \cup {PutReq("k", idem, p[2], p[1]) :
            idem \in {None, Some("t1")},
            p \in {<<"a", Some(TtlBad)>>, <<"bover", None>>, <<"bover", Some(TtlBad)>>}}
    \cup {PutReq("k", None, None, "a"),
          PutReq("kover", None, None, "a"),
          PutReq("kover", Some("t1"), None, "a"),
          PutReq("kover", None, Some(TtlBad), "bover")}

\* A PUT whose body is beyond the body limit of the router
OverLimitPutRequests == {PutReq("k", Some("t1"), None, "bhuge")}

DeleteRequests ==
    {PutReq(key, Some(t), None, "") : key \in StoreKeys, t \in Tokens}
    \cup {PutReq(key, idem, None, "") : key \in {"k", "kover"}, idem \in {None, Some("t1")}}

HandleGet(key) ==
    \E out \in {handle_get(Db, role, key, now)} :
        /\ SetDb(out.db)
        /\ last' = Call("GET", key, None, out.resp)
        /\ UNCHANGED <<served, clientVars, stressVars, role, now, writes, tasks, lock>>

HandlePut(key, headers, body) ==
    \E out \in {route_put(Db, role, key, headers, body)} :
        /\ SetDb(out.db)
        /\ last' = Call("PUT", key, headers.idempotency_key, out.resp)
        /\ writes' = Logged("PUT", key, headers, Some(body), out)
        /\ UNCHANGED <<served, clientVars, stressVars, role, now, tasks, lock>>

HandleDelete(key, headers) ==
    \E out \in {handle_delete(Db, role, key, headers, now)} :
        /\ SetDb(out.db)
        /\ last' = Call("DELETE", key, headers.idempotency_key, out.resp)
        /\ writes' = Logged("DELETE", key, headers, None, out)
        /\ UNCHANGED <<served, clientVars, stressVars, role, now, tasks, lock>>

\* The clock moves on between calls.
Tick(times) ==
    /\ \E t \in times : t > now /\ now' = t
    /\ UNCHANGED <<served, clientVars, stressVars, role, store, idempotency_cache, next_version, last, writes, tasks, lock>>

Next ==
    \/ \E key \in AllKeys : HandleGet(key)
    \/ \E req \in PutRequests \cup OverLimitPutRequests :
            HandlePut(req.key, req.headers, req.body)
    \/ \E req \in DeleteRequests : HandleDelete(req.key, req.headers)
    \/ Tick(Times)

Spec == Init /\ [][Next]_vars

\* The server from the start of the clock, under the requests the token and expiry
\* properties turn on: a PUT of each key under each token, a PUT with an X-TTL, a
\* PUT with an X-TTL that does not parse and one with a body over MAX_VALUE_SIZE,
\* and a DELETE of each key under each token
ServePutRequests ==
    {PutReq(key, Some(t), None, "a") : key \in StoreKeys, t \in Tokens}
    \cup {PutReq("k", Some("t1"), Some(TtlGood), "bmax"),
          PutReq("k", Some("t1"), Some(TtlBad), "a"),
          PutReq("k", Some("t1"), None, "bover")}

ServeDeleteRequests == {PutReq(key, Some(t), None, "") : key \in StoreKeys, t \in Tokens}

InitServe == Init /\ now = 1

NextServe ==
    \/ \E key \in StoreKeys : HandleGet(key)
    \/ \E req \in ServePutRequests : HandlePut(req.key, req.headers, req.body)
    \/ \E req \in ServeDeleteRequests : HandleDelete(req.key, req.headers)
    \/ Tick({3602})

SpecServe == InitServe /\ [][NextServe]_vars

----------------------------------------------------------------------------
(* SpecConc: handler tasks that interleave at the lock *)

ConcKeys   == {"k"}
ConcTokens == {"t1", "t2"}
ConcTimes  == {1, 3602}

ConcPutRequests ==
    {PutReq(key, Some(t), p[2], p[1]) : key \in ConcKeys, t \in ConcTokens, p \in Payloads}
    \cup {PutReq("k", None, None, "a")}

ConcDeleteRequests ==
    {PutReq(key, Some(t), None, "") : key \in ConcKeys, t \in ConcTokens}

\* The handler returns: its response reaches the caller and the task is over.
Return(t, resp) ==
    /\ last' = Call(tasks[t].op, tasks[t].key,
                     IF tasks[t].op = "GET" THEN None ELSE Some(tasks[t].idempotency_key), resp)
    /\ tasks' = [tasks EXCEPT ![t] = Idle]

\* Mutant: the guard outlives the handler.
Release_KeepsGuard(t) == lock' = lock

\* Dropping the guard the task holds
Release(t) ==
    lock' = [writer |-> lock.writer \ {t}, readers |-> lock.readers \ {t}]

\* Mutant: a read guard is granted while a write guard is out.
CanRead_Always(l) == TRUE

\* state.db.read() is granted while no write guard is out
CanRead(l) == l.writer = {}

\* Mutant: a write guard is granted while read guards are out.
CanWrite_IgnoresReaders(l) == l.writer = {}

\* Mutant: a write guard is granted while another write guard is out.
CanWrite_NoExclusion(l) == l.readers = {}

\* state.db.write() is granted while no guard is out
CanWrite(l) == l.writer = {} /\ l.readers = {}

\* handle_get up to the lock acquisition
StartGet(t, key) ==
    /\ tasks[t].pc = "idle"
    /\ IF IsSome(get_preamble(role, key))
       THEN /\ last' = Call("GET", key, None, Unwrap(get_preamble(role, key)))
            /\ UNCHANGED tasks
       ELSE /\ tasks' = [tasks EXCEPT ![t] = Task("wait", "GET", key, "", None, None, 0)]
            /\ UNCHANGED last
    /\ UNCHANGED <<served, clientVars, stressVars, role, now, store, idempotency_cache, next_version, writes, lock>>

\* handle_put up to the lock acquisition
StartPut(t, key, headers, body) ==
    /\ tasks[t].pc = "idle"
    /\ IF IsSome(put_preamble(role, key, headers, body))
       THEN /\ last' = Call("PUT", key, headers.idempotency_key,
                            Unwrap(put_preamble(role, key, headers, body)))
            /\ UNCHANGED tasks
       ELSE /\ tasks' = [tasks EXCEPT ![t] =
                    Task("wait", "PUT", key, extract_idempotency_key(headers).value,
                         Some(body), put_expires_at(headers), 0)]
            /\ UNCHANGED last
    /\ UNCHANGED <<served, clientVars, stressVars, role, now, store, idempotency_cache, next_version, writes, lock>>

\* handle_delete up to the lock acquisition
StartDelete(t, key, headers) ==
    /\ tasks[t].pc = "idle"
    /\ IF IsSome(delete_preamble(role, key, headers))
       THEN /\ last' = Call("DELETE", key, headers.idempotency_key,
                            Unwrap(delete_preamble(role, key, headers)))
            /\ UNCHANGED tasks
       ELSE /\ tasks' = [tasks EXCEPT ![t] =
                    Task("wait", "DELETE", key, extract_idempotency_key(headers).value,
                         None, None, 0)]
            /\ UNCHANGED last
    /\ UNCHANGED <<served, clientVars, stressVars, role, now, store, idempotency_cache, next_version, writes, lock>>

\* timeout(LOCK_TIMEOUT, state.db.read()) returns Ok(guard)
AcquireRead(t) ==
    /\ tasks[t].pc = "wait" /\ tasks[t].op = "GET"
    /\ CanRead(lock)
    /\ lock' = [lock EXCEPT !.readers = @ \cup {t}]
    /\ tasks' = [tasks EXCEPT ![t].pc = "locked"]
    /\ UNCHANGED <<served, clientVars, stressVars, role, now, store, idempotency_cache, next_version, last, writes>>

\* timeout(LOCK_TIMEOUT, state.db.write()) returns Ok(guard)
AcquireWrite(t) ==
    /\ tasks[t].pc = "wait" /\ tasks[t].op \in {"PUT", "DELETE"}
    /\ CanWrite(lock)
    /\ lock' = [lock EXCEPT !.writer = {t}]
    /\ tasks' = [tasks EXCEPT ![t].pc = "locked"]
    /\ UNCHANGED <<served, clientVars, stressVars, role, now, store, idempotency_cache, next_version, last, writes>>

\* Mutant: the handler waits for the guard without a timeout.
LockTimeout_Never(t) == FALSE /\ UNCHANGED vars

\* timeout(LOCK_TIMEOUT, ...) returns Err: the guard was not granted in time
LockTimeout(t) ==
    /\ tasks[t].pc = "wait"
    /\ IF tasks[t].op = "GET" THEN ~CanRead(lock) ELSE ~CanWrite(lock)
    /\ Return(t, error_response(503, MsgLock))
    /\ UNCHANGED <<served, clientVars, stressVars, role, now, store, idempotency_cache, next_version, writes, lock>>

\* handle_get under the read guard: lookup, response, guard dropped
GetRead(t) ==
    /\ tasks[t].pc = "locked" /\ tasks[t].op = "GET"
    /\ Return(t, get_locked(Db, tasks[t].key, now))
    /\ Release(t)
    /\ UNCHANGED <<served, clientVars, stressVars, role, now, store, idempotency_cache, next_version, writes>>

\* handle_put / handle_delete under the write guard: the replay lookup, the no-op
\* check of DELETE, and `next_version += 1; let version = next_version`
Lookup(t) ==
    /\ tasks[t].pc = "locked" /\ tasks[t].op \in {"PUT", "DELETE"}
    /\ IF tasks[t].idempotency_key \in DOMAIN idempotency_cache
       THEN /\ Return(t, IF tasks[t].op = "PUT"
                         THEN verify_and_build_cached_put(
                                  idempotency_cache[tasks[t].idempotency_key], tasks[t].key)
                         ELSE verify_and_build_cached_delete(
                                  idempotency_cache[tasks[t].idempotency_key], tasks[t].key))
            /\ Release(t)
            /\ UNCHANGED <<store, idempotency_cache, next_version>>
       ELSE IF /\ tasks[t].op = "DELETE"
               /\ (tasks[t].key \notin DOMAIN store \/ store[tasks[t].key].value = None)
       THEN /\ Return(t, NoContent)
            /\ Release(t)
            /\ UNCHANGED <<store, idempotency_cache, next_version>>
       ELSE /\ SetDb(BumpVersion(Db))
            /\ tasks' = [tasks EXCEPT ![t].pc = "bumped", ![t].version = next_version']
            /\ UNCHANGED <<last, lock>>
    /\ UNCHANGED <<served, clientVars, stressVars, role, now, writes>>

\* db_guard.store.insert(key, Entry { .. }); DELETE reads the clock first
InsertEntry(t) ==
    /\ tasks[t].pc = "bumped"
    /\ SetDb(StoreInsert(Db, tasks[t].key,
                IF tasks[t].op = "PUT"
                THEN Entry(tasks[t].body, tasks[t].version, tasks[t].expires_at)
                ELSE Entry(None, tasks[t].version, Some(now + TOMBSTONE_TTL_SECS))))
    /\ tasks' = [tasks EXCEPT ![t].pc = "stored"]
    /\ UNCHANGED <<served, clientVars, stressVars, role, now, last, writes, lock>>

\* db_guard.idempotency_cache.insert(..), the 200 response, guard dropped on return
Finish(t) ==
    /\ tasks[t].pc = "stored"
    /\ SetDb(CacheInsert(Db, tasks[t].idempotency_key,
                IdempotencyRecord(tasks[t].op, tasks[t].key, Some(tasks[t].version))))
    /\ Return(t, OkWithEtag(tasks[t].version))
    /\ Release(t)
    /\ writes' = Append(writes, Write(tasks[t].op, tasks[t].key, tasks[t].idempotency_key,
                                      tasks[t].body, Some(etag_value(tasks[t].version))))
    /\ UNCHANGED <<served, clientVars, stressVars, role, now>>

NextConc ==
    \/ \E t \in TaskIds, key \in ConcKeys : StartGet(t, key)
    \/ \E t \in TaskIds, req \in ConcPutRequests : StartPut(t, req.key, req.headers, req.body)
    \/ \E t \in TaskIds, req \in ConcDeleteRequests : StartDelete(t, req.key, req.headers)
    \/ \E t \in TaskIds : AcquireRead(t)
    \/ \E t \in TaskIds : AcquireWrite(t)
    \/ \E t \in TaskIds : LockTimeout(t)
    \/ \E t \in TaskIds : GetRead(t)
    \/ \E t \in TaskIds : Lookup(t)
    \/ \E t \in TaskIds : InsertEntry(t)
    \/ \E t \in TaskIds : Finish(t)
    \/ Tick(ConcTimes)

InitConc ==
    /\ Init
    /\ now \in ConcTimes

SpecConc == InitConc /\ [][NextConc]_vars

\* The lock protocol under the scheduler: the requests of one GET, one PUT and one
\* DELETE client of one key on a primary, the clock standing still.
LockPutRequests    == {PutReq("k", Some("t1"), None, "a")}
LockDeleteRequests == {PutReq("k", Some("t2"), None, "")}

NextLock ==
    \/ \E t \in TaskIds : StartGet(t, "k")
    \/ \E t \in TaskIds, req \in LockPutRequests : StartPut(t, req.key, req.headers, req.body)
    \/ \E t \in TaskIds, req \in LockDeleteRequests : StartDelete(t, req.key, req.headers)
    \/ \E t \in TaskIds : AcquireRead(t)
    \/ \E t \in TaskIds : AcquireWrite(t)
    \/ \E t \in TaskIds : LockTimeout(t)
    \/ \E t \in TaskIds : GetRead(t)
    \/ \E t \in TaskIds : Lookup(t)
    \/ \E t \in TaskIds : InsertEntry(t)
    \/ \E t \in TaskIds : Finish(t)

InitLock ==
    /\ Init
    /\ role = "Primary"
    /\ now = 1

\* Scheduling: a handler that waits for the guard gets it or its timeout fires, and a
\* handler that holds a guard runs on to its return (there is no await under a guard).
FairTask(t) ==
    /\ WF_vars(AcquireRead(t) \/ AcquireWrite(t) \/ LockTimeout(t))
    /\ WF_vars(GetRead(t) \/ Lookup(t) \/ InsertEntry(t) \/ Finish(t))

SpecLock == InitLock /\ [][NextLock]_vars /\ \A t \in TaskIds : FairTask(t)

----------------------------------------------------------------------------
(* Vocabulary of the properties *)

\* The request passes the preamble on a primary: sizes within the limits, X-TTL absent
\* or a u64, Idempotency-Key present.
\* The request gets past the preamble of its handler: primary role, key and body
\* within the size limits, X-TTL absent or a u64, Idempotency-Key present
WellFormedPut(req) == put_preamble(role, req.key, req.headers, req.body) = None

WellFormedDelete(req) == delete_preamble(role, req.key, req.headers) = None

TokenOf(req) == Unwrap(req.headers.idempotency_key)

\* The version a logged response carried in its ETag
WriteVersion(w) == Unwrap(parse_u64(trim_quotes(Unwrap(w.etag))))

\* Tokens some fresh 200 response was given for
UsedTokens == {writes[i].token : i \in 1..Len(writes)}

\* The last logged write of a key (0: none)
LastWriteIndex(key) ==
    IF \E i \in 1..Len(writes) : writes[i].key = key
    THEN CHOOSE i \in 1..Len(writes) :
            /\ writes[i].key = key
            /\ \A j \in (i + 1)..Len(writes) : writes[j].key # key
    ELSE 0

\* The clients were told that the key holds a value / that it was deleted
LoggedLive(key)    == LastWriteIndex(key) # 0 /\ writes[LastWriteIndex(key)].method = "PUT"
LoggedDeleted(key) == LastWriteIndex(key) # 0 /\ writes[LastWriteIndex(key)].method = "DELETE"

\* The step answers 200 to a PUT or DELETE whose token no earlier mutation used:
\* a successful write-producing mutation.
FreshOk ==
    /\ last'.op \in {"PUT", "DELETE"}
    /\ last'.resp.status = 200
    /\ IsSome(last'.idempotency_key)
    /\ Unwrap(last'.idempotency_key) \notin UsedTokens

UnchangedDb == UNCHANGED <<store, idempotency_cache, next_version>>

\* What the handlers answer to a request in the current state
GetOut(key)    == handle_get(Db, role, key, now)
PutOut(req)    == route_put(Db, role, req.key, req.headers, req.body)
DeleteOut(req) == handle_delete(Db, role, req.key, req.headers, now)

\* The log holds a fresh 200 given to `method` on `key` under `token`, at line i
LoggedAt(i, method, key, token) ==
    /\ writes[i].method = method
    /\ writes[i].key = key
    /\ writes[i].token = token

----------------------------------------------------------------------------
(* Properties of the request engine *)

\* A PUT, or a DELETE of a live key, that passes the preamble with a token no
\* mutation used is answered 200 with ETag next_version + 1.
C1_Fresh ==
    /\ \A req \in PutRequests :
         (WellFormedPut(req) /\ TokenOf(req) \notin DOMAIN idempotency_cache)
         => /\ PutOut(req).resp = OkWithEtag(next_version + 1)
            /\ PutOut(req).db.next_version = next_version + 1
    /\ \A req \in DeleteRequests :
         (WellFormedDelete(req) /\ TokenOf(req) \notin DOMAIN idempotency_cache
            /\ req.key \in DOMAIN store /\ store[req.key].value # None)
         => /\ DeleteOut(req).resp = OkWithEtag(next_version + 1)
            /\ DeleteOut(req).db.next_version = next_version + 1

\* The versions in the log of 200 responses are strictly increasing, on whatever keys.
C1_Log ==
    \A i, j \in 1..Len(writes) : i < j => WriteVersion(writes[i]) < WriteVersion(writes[j])

\* next_version never decreases; a step that answers 200 to a fresh-token PUT or
\* DELETE carries ETag next_version + 1 and advances next_version by exactly one.
C1_Step ==
    /\ next_version' >= next_version
    /\ FreshOk => /\ parse_etag(last'.resp) = Some(next_version + 1)
                  /\ next_version' = next_version + 1
                  /\ writes' = Append(writes, writes'[Len(writes')])
                  /\ writes'[Len(writes')].etag = last'.resp.etag

\* C1: every successful write-producing mutation (a fresh-token PUT, a fresh-token
\* DELETE of a live key) returns the version next_version + 1, next_version being the
\* counter before the request, and advances the counter by one; next_version never
\* decreases; the versions handed out over the life of the server, on whatever keys,
\* are strictly increasing.
C1_VersionsStrictlyIncrease == [](C1_Fresh /\ C1_Log) /\ [][C1_Step]_vars

\* Three mutations on two keys, a DELETE among them, the last answered with ETag "3".
C1_Witness ==
    /\ Len(writes) = 3
    /\ writes[1].key # writes[3].key
    /\ writes[2].method = "DELETE"
    /\ last.op = "PUT" /\ last.resp.status = 200 /\ last.resp.etag = Some(etag_value(3))

\* C2: no two store entries, live or tombstone, carry the same version.
C2_StoreVersionsDistinct ==
    \A k1, k2 \in DOMAIN store : k1 # k2 => store[k1].version # store[k2].version

\* Two keys in the store, one live and one a tombstone.
C2_Witness ==
    \E k1, k2 \in DOMAIN store :
        /\ k1 # k2
        /\ store[k1].value = None
        /\ store[k2].value # None

\* C3: in every state after a PUT with token T on key K was answered 200 with ETag V,
\* a PUT with token T on K that passes the preamble, whatever its body and X-TTL and
\* whatever was written to K since, is answered 200 with ETag V and leaves the store,
\* the idempotency cache and next_version as they are.
C3_PutReplay ==
    \A req \in PutRequests : \A i \in 1..Len(writes) :
        (WellFormedPut(req) /\ LoggedAt(i, "PUT", req.key, TokenOf(req)))
        => /\ PutOut(req).resp.status = 200
           /\ PutOut(req).resp.etag = writes[i].etag
           /\ PutOut(req).db = Db

\* A PUT was replayed after its key had been written again with another value: the
\* answer carries the first ETag, the store the later entry.
C3_Witness ==
    /\ last.op = "PUT" /\ last.resp.status = 200
    /\ \E i \in 1..Len(writes) :
        /\ LoggedAt(i, "PUT", last.key, Unwrap(last.idempotency_key))
        /\ writes[i].etag = last.resp.etag
        /\ i < Len(writes)
        /\ store[last.key].version > WriteVersion(writes[i])
        /\ store[last.key].value # writes[i].value
        /\ store[last.key].value # None

\* C4: once a token is recorded for (method M, key K), a PUT or DELETE that passes the
\* preamble and carries the token with another method or another key is answered 422
\* and changes nothing in the store, the idempotency cache or next_version.
C4_TokenMismatch ==
    \A i \in 1..Len(writes) :
        /\ \A req \in PutRequests :
             (WellFormedPut(req) /\ TokenOf(req) = writes[i].token
                /\ (writes[i].method # "PUT" \/ writes[i].key # req.key))
             => /\ PutOut(req).resp.status = 422
                /\ PutOut(req).resp.error = MsgMismatch
                /\ PutOut(req).db = Db
        /\ \A req \in DeleteRequests :
             (WellFormedDelete(req) /\ TokenOf(req) = writes[i].token
                /\ (writes[i].method # "DELETE" \/ writes[i].key # req.key))
             => /\ DeleteOut(req).resp.status = 422
                /\ DeleteOut(req).resp.error = MsgMismatch
                /\ DeleteOut(req).db = Db

\* A PUT was answered 422 for a token recorded on another key.
C4_Witness ==
    /\ last.op = "PUT" /\ last.resp.status = 422
    /\ \E i \in 1..Len(writes) :
        /\ writes[i].token = Unwrap(last.idempotency_key)
        /\ writes[i].method = "PUT"
        /\ writes[i].key # last.key

\* C5: in every state after a DELETE with token T wrote a tombstone of K at version V,
\* a DELETE with token T on K is answered 200 with ETag V and changes no state, also
\* when K was PUT again: the entry of the later PUT stays as it is.
C5_DeleteReplay ==
    \A req \in DeleteRequests : \A i \in 1..Len(writes) :
        (WellFormedDelete(req) /\ LoggedAt(i, "DELETE", req.key, TokenOf(req)))
        => /\ DeleteOut(req).resp.status = 200
           /\ DeleteOut(req).resp.etag = writes[i].etag
           /\ DeleteOut(req).db = Db

\* A DELETE was replayed after its key had been PUT again: the key is live at a later
\* version.
C5_Witness ==
    /\ last.op = "DELETE" /\ last.resp.status = 200
    /\ \E i \in 1..Len(writes) :
        /\ LoggedAt(i, "DELETE", last.key, Unwrap(last.idempotency_key))
        /\ writes[i].etag = last.resp.etag
        /\ store[last.key].value # None
        /\ store[last.key].version > WriteVersion(writes[i])
        /\ LoggedLive(last.key)

\* C6: a DELETE with a token no mutation used, on a key that is absent or a tombstone,
\* is answered 204 and changes nothing: next_version, the store (the tombstone's
\* version and expires_at included) and the idempotency cache, which gets no record
\* for the token.
C6_DeleteNoop ==
    \A req \in DeleteRequests :
        (WellFormedDelete(req) /\ TokenOf(req) \notin UsedTokens
            /\ (req.key \notin DOMAIN store \/ store[req.key].value = None))
        => /\ DeleteOut(req).resp = NoContent
           /\ DeleteOut(req).db = Db
           /\ TokenOf(req) \notin DOMAIN DeleteOut(req).db.idempotency_cache

\* A DELETE of a tombstoned key was answered 204 and its token is not recorded.
C6_Witness ==
    /\ last.op = "DELETE" /\ last.resp.status = 204
    /\ last.key \in DOMAIN store /\ store[last.key].value = None
    /\ Unwrap(last.idempotency_key) \notin DOMAIN idempotency_cache
    /\ next_version = store[last.key].version

\* C7: while the last mutation of K is a DELETE answered 200 with version D: GET K is
\* answered 404; a DELETE of K with another, unused token is answered 204; a fresh PUT
\* of K gets a version greater than D, after which GET K returns its body. PUT,
\* DELETE, PUT of one key on a fresh server get the versions 1, 2, 3.
C7_DeleteThenPut ==
    /\ \A key \in StoreKeys :
         LoggedDeleted(key) =>
            LET del == writes[LastWriteIndex(key)]
            IN  /\ GetOut(key).resp.status = 404
                /\ \A req \in DeleteRequests :
                     (WellFormedDelete(req) /\ req.key = key /\ TokenOf(req) # del.token
                        /\ TokenOf(req) \notin UsedTokens)
                     => DeleteOut(req).resp.status = 204
                /\ \A req \in PutRequests :
                     (WellFormedPut(req) /\ req.key = key /\ TokenOf(req) \notin UsedTokens)
                     => /\ PutOut(req).resp.status = 200
                        /\ Unwrap(parse_etag(PutOut(req).resp)) > WriteVersion(del)
                        /\ get_locked(PutOut(req).db, key, now).status = 200
                        /\ get_locked(PutOut(req).db, key, now).body = Some(req.body)
    /\ (/\ Len(writes) = 3
        /\ writes[1].method = "PUT" /\ writes[2].method = "DELETE" /\ writes[3].method = "PUT"
        /\ writes[1].key = writes[2].key /\ writes[2].key = writes[3].key)
       => \A i \in 1..3 : writes[i].etag = Some(etag_value(i))

\* PUT, DELETE, PUT of one key got the versions 1, 2, 3, and the GET after them
\* returned the body of the second PUT.
C7_Witness ==
    /\ Len(writes) = 3
    /\ writes[1].method = "PUT" /\ writes[2].method = "DELETE" /\ writes[3].method = "PUT"
    /\ writes[1].key = writes[2].key /\ writes[2].key = writes[3].key
    /\ writes[3].etag = Some(etag_value(3))
    /\ writes[1].value # writes[3].value
    /\ last.op = "GET" /\ last.key = writes[3].key
    /\ last.resp.status = 200 /\ last.resp.body = writes[3].value

\* C8: on a primary, GET of a key within the size limit is answered 404 exactly when
\* the key is absent from the store or its entry is a tombstone; otherwise 200 with
\* the body and the version of the latest fresh PUT of the key.
C8_GetReturnsLatestPut ==
    \A key \in StoreKeys :
        role = "Primary" =>
            LET resp == GetOut(key).resp
            IN  /\ resp.status = 404 <=> (key \notin DOMAIN store \/ store[key].value = None)
                /\ resp.status # 404 =>
                     /\ resp.status = 200
                     /\ LoggedLive(key)
                     /\ resp.body = writes[LastWriteIndex(key)].value
                     /\ resp.etag = writes[LastWriteIndex(key)].etag

\* A GET returned the body of the second of two PUTs of its key.
C8_Witness ==
    /\ last.op = "GET" /\ last.resp.status = 200
    /\ \E i, j \in 1..Len(writes) :
        /\ i < j /\ j = LastWriteIndex(last.key)
        /\ writes[i].key = last.key /\ writes[i].method = "PUT" /\ writes[j].method = "PUT"
        /\ writes[i].value # writes[j].value
        /\ last.resp.body = writes[j].value
        /\ last.resp.etag = writes[j].etag

\* C9: GET of a live entry carries X-Expired: true exactly when the entry has an
\* expires_at and now >= expires_at; expired or not, the answer is 200 with the body
\* and the ETag of the entry.
C9_ExpiredHeader ==
    \A key \in DOMAIN store :
        (role = "Primary" /\ store[key].value # None) =>
            LET resp == GetOut(key).resp
                e    == store[key]
            IN  /\ resp.x_expired <=> (e.expires_at # None /\ now >= Unwrap(e.expires_at))
                /\ resp.status = 200
                /\ resp.body = e.value
                /\ resp.etag = Some(etag_value(e.version))

\* A GET at the very instant expires_at was answered 200 with X-Expired: true.
C9_Witness ==
    /\ last.op = "GET" /\ last.resp.status = 200 /\ last.resp.x_expired
    /\ last.key \in DOMAIN store
    /\ store[last.key].expires_at = Some(now)
    /\ last.resp.body = store[last.key].value

\* The idempotency records that carry version v
RecordsOf(v) == {tok \in DOMAIN idempotency_cache : idempotency_cache[tok].etag = Some(v)}

\* Every mutation is in the state as a whole: each version handed out has its one
\* idempotency record, each store entry has the record of the mutation that wrote it,
\* and the entry of the latest version is in the store.
Consistent ==
    /\ Cardinality(DOMAIN idempotency_cache) = next_version
    /\ \A v \in 1..next_version : Cardinality(RecordsOf(v)) = 1
    /\ \A key \in DOMAIN store :
         \E tok \in RecordsOf(store[key].version) :
            /\ idempotency_cache[tok].key_path = key
            /\ idempotency_cache[tok].method =
                  IF store[key].value = None THEN "DELETE" ELSE "PUT"
    /\ next_version > 0 => \E key \in DOMAIN store : store[key].version = next_version

\* The task is between the first and the last assignment of a mutation
MidMutation(t) == tasks[t].pc \in {"bumped", "stored"}

C10_Observed ==
    /\ (\E t \in TaskIds : tasks[t].pc = "locked") => Consistent
    /\ (\A t \in TaskIds : ~MidMutation(t)) => Consistent
    /\ \A t \in TaskIds : MidMutation(t) => (lock.writer = {t} /\ lock.readers = {})

C10_Step ==
    /\ (last' # last /\ last'.resp.status \in {400, 405, 422, 503}) => UnchangedDb
    /\ ~UnchangedDb =>
         \E t \in TaskIds :
            /\ lock.writer = {t} /\ lock.readers = {}
            /\ \A u \in TaskIds \ {t} : tasks'[u] = tasks[u]
            /\ \/ (tasks'[t].pc \in {"bumped", "stored"})
               \/ /\ tasks[t].pc = "stored"
                  /\ last'.resp = OkWithEtag(tasks[t].version)
                  /\ Len(writes') = Len(writes) + 1

\* C10: no partial state is observable. Whenever a handler holds a guard and is about
\* to look at DbState, and whenever no mutation is under way, the store entry, the
\* version stamp and the idempotency record of every PUT and tombstoning DELETE are
\* all in the state; a mutation under way holds the write guard alone from its first
\* assignment to its last; a step that answers 400, 405, 422 or 503 leaves DbState
\* unchanged, and only a request that is answered 200 changes it.
C10_NoPartialState == []C10_Observed /\ [][C10_Step]_vars

\* A reader was answered 503 while a mutation had bumped next_version and inserted
\* its entry but not yet its idempotency record.
C10_Witness ==
    /\ last.op = "GET" /\ last.resp.status = 503
    /\ \E t \in TaskIds : tasks[t].pc = "stored" /\ lock.writer = {t}
    /\ ~Consistent

\* C11: on a replica every GET, PUT and DELETE that is handed to its handler is
\* answered 405 "Replica does not accept key operations", whatever else is wrong with
\* the request (oversized key, oversized body, bad X-TTL, missing Idempotency-Key),
\* and the DbState of the replica stays at its initial value: empty store, empty
\* idempotency cache, next_version 0. (A PUT body beyond the body limit of the router
\* does not get to handle_put.)
C11_ReplicaRejects ==
    role = "Replica" =>
        /\ Db = DbState(EmptyMap, EmptyMap, 0)
        /\ (last.op # "none" /\ last.resp # PayloadTooLarge)
              => last.resp = error_response(405, MsgReplica)
        /\ \A key \in AllKeys :
             /\ GetOut(key).resp = error_response(405, MsgReplica)
             /\ GetOut(key).db = Db
        /\ \A req \in PutRequests :
             /\ PutOut(req).resp = error_response(405, MsgReplica)
             /\ PutOut(req).db = Db
        /\ \A req \in DeleteRequests :
             /\ DeleteOut(req).resp = error_response(405, MsgReplica)
             /\ DeleteOut(req).db = Db

\* A replica answered 405 to a PUT with an oversized key and no Idempotency-Key.
C11_Witness ==
    /\ role = "Replica"
    /\ last.op = "PUT" /\ last.key = "kover" /\ last.idempotency_key = None
    /\ last.resp.status = 405
    /\ store = EmptyMap /\ next_version = 0

\* The response of the first failing preamble check of a PUT, in the order key size,
\* body size, X-TTL parse, Idempotency-Key present; None when no check fails.
FirstFailingPut(req) ==
    IF KeyLen(req.key) > MAX_KEY_SIZE THEN Some(error_response(400, MsgKeySize))
    ELSE IF BodyLen(req.body) > MAX_VALUE_SIZE THEN Some(error_response(400, MsgValueSize))
    ELSE IF req.headers.x_ttl = Some(TtlBad) THEN Some(error_response(400, MsgTtl))
    ELSE IF req.headers.idempotency_key = None THEN Some(error_response(400, MsgIdemNeeded))
    ELSE None

\* The same for a DELETE: key size, then Idempotency-Key present.
FirstFailingDelete(req) ==
    IF KeyLen(req.key) > MAX_KEY_SIZE THEN Some(error_response(400, MsgKeySize))
    ELSE IF req.headers.idempotency_key = None THEN Some(error_response(400, MsgIdemNeeded))
    ELSE None

\* C12: on a primary a request that fails several preamble checks is answered by the
\* first failing one in the order key size, body size (PUT), X-TTL parse (PUT),
\* Idempotency-Key present (PUT, DELETE), and DbState is left as it is: without a
\* token an oversized key gets the key-size message, an oversized body the value-size
\* message, an unparsable X-TTL the X-TTL message.
C12_PreambleOrder ==
    role = "Primary" =>
        /\ \A req \in PutRequests :
             FirstFailingPut(req) # None =>
                /\ PutOut(req).resp = Unwrap(FirstFailingPut(req))
                /\ PutOut(req).db = Db
        /\ \A req \in DeleteRequests :
             FirstFailingDelete(req) # None =>
                /\ DeleteOut(req).resp = Unwrap(FirstFailingDelete(req))
                /\ DeleteOut(req).db = Db
        /\ PutOut(PutReq("kover", None, None, "a")).resp.error = MsgKeySize
        /\ PutOut(PutReq("kover", None, Some(TtlBad), "bover")).resp.error = MsgKeySize
        /\ PutOut(PutReq("k", None, None, "bover")).resp.error = MsgValueSize
        /\ PutOut(PutReq("k", None, Some(TtlBad), "bover")).resp.error = MsgValueSize
        /\ PutOut(PutReq("k", None, Some(TtlBad), "a")).resp.error = MsgTtl
        /\ DeleteOut(PutReq("kover", None, None, "")).resp.error = MsgKeySize

\* A primary that holds data answered a PUT with an oversized key and no token with the
\* key-size message.
C12_Witness ==
    /\ role = "Primary"
    /\ last.op = "PUT" /\ last.key = "kover" /\ last.idempotency_key = None
    /\ last.resp = error_response(400, MsgKeySize)
    /\ next_version > 0

\* C13: a key of exactly MAX_KEY_SIZE bytes and a PUT body of exactly MAX_VALUE_SIZE
\* bytes are accepted (no 400, no 413; a PUT with an unused token stores the body under
\* the key); a key of MAX_KEY_SIZE + 1 bytes (GET, PUT, DELETE) and a body of
\* MAX_VALUE_SIZE + 1 bytes (PUT) are answered 400 with the size message, not 413, and
\* DbState is left as it is.
C13_SizeLimits ==
    role = "Primary" =>
        /\ KeyLen("kmax") = MAX_KEY_SIZE /\ BodyLen("bmax") = MAX_VALUE_SIZE
        /\ KeyLen("kover") = MAX_KEY_SIZE + 1 /\ BodyLen("bover") = MAX_VALUE_SIZE + 1
        /\ GetOut("kmax").resp.status \in {200, 404}
        /\ \A req \in DeleteRequests :
             (req.key = "kmax" /\ IsSome(req.headers.idempotency_key))
             => DeleteOut(req).resp.status \in {200, 204, 422}
        /\ \A req \in PutRequests :
             ((req.key = "kmax" \/ req.body = "bmax")
                /\ KeyLen(req.key) <= MAX_KEY_SIZE /\ BodyLen(req.body) <= MAX_VALUE_SIZE
                /\ req.headers.x_ttl # Some(TtlBad) /\ IsSome(req.headers.idempotency_key))
             => /\ PutOut(req).resp.status \in {200, 422}
                /\ TokenOf(req) \notin DOMAIN idempotency_cache
                     => /\ PutOut(req).resp.status = 200
                        /\ PutOut(req).db.store[req.key].value = Some(req.body)
        /\ GetOut("kover").resp = error_response(400, MsgKeySize)
        /\ \A req \in DeleteRequests :
             req.key = "kover" => /\ DeleteOut(req).resp = error_response(400, MsgKeySize)
                                  /\ DeleteOut(req).db = Db
        /\ \A req \in PutRequests :
             /\ req.key = "kover" => /\ PutOut(req).resp = error_response(400, MsgKeySize)
                                     /\ PutOut(req).db = Db
             /\ (req.key # "kover" /\ req.body = "bover")
                  => /\ PutOut(req).resp = error_response(400, MsgValueSize)
                     /\ PutOut(req).db = Db

\* The store holds a body of MAX_VALUE_SIZE bytes under a key of MAX_KEY_SIZE bytes, and
\* the last PUT, one byte over in its body, was answered 400 with the value-size message.
C13_Witness ==
    /\ "kmax" \in DOMAIN store /\ store["kmax"].value = Some("bmax")
    /\ last.op = "PUT" /\ last.resp = error_response(400, MsgValueSize)

\* The expires_at a PUT asks for: none without X-TTL, 2 for the X-TTL "2"
AskedExpiresAt(req) == IF req.headers.x_ttl = None THEN None ELSE Some(2)

\* C14: a fresh PUT on key K leaves the entry of K with expires_at equal to the X-TTL
\* of that PUT, and with none when the PUT had no X-TTL, whatever expires_at the entry
\* it replaces had, live or tombstone; an X-TTL already in the past is accepted (200)
\* and stored unchanged.
C14_TtlReplaced ==
    \A req \in PutRequests :
        (WellFormedPut(req) /\ TokenOf(req) \notin DOMAIN idempotency_cache)
        => /\ PutOut(req).resp.status = 200
           /\ PutOut(req).db.store[req.key].expires_at = AskedExpiresAt(req)
           /\ PutOut(req).db.store[req.key].value = Some(req.body)

\* The entry of a key holds no expires_at after a PUT without X-TTL replaced the
\* tombstone of the key (expires_at 3601 or later), which had replaced an entry with
\* expires_at 2.
C14_Witness ==
    /\ Len(writes) = 3
    /\ \A i \in 1..3 : writes[i].key = "k"
    /\ writes[1].method = "PUT" /\ writes[1].value = Some("bmax")
    /\ writes[2].method = "DELETE"
    /\ writes[3].method = "PUT" /\ writes[3].value = Some("a")
    /\ store["k"].expires_at = None /\ store["k"].version = 3
    /\ last.op = "PUT" /\ last.resp.etag = writes[3].etag

\* A second reachable case of C14: an X-TTL in the past was stored as it is. The entry
\* of "k" was written after a DELETE that happened at time 3602, and has expires_at 2.
C14_PastTtlStored ==
    /\ "kmax" \in DOMAIN store /\ store["kmax"].expires_at = Some(3602 + TOMBSTONE_TTL_SECS)
    /\ "k" \in DOMAIN store /\ store["k"].expires_at = Some(2)
    /\ store["k"].version > store["kmax"].version

\* The response shows the PUT logged at line i of the log or a later write of its key:
\* 200 with a version not below that PUT's, or 404 with a DELETE of the key logged later.
Observes(resp, i) ==
    \/ /\ resp.status = 200
       /\ Unwrap(parse_etag(resp)) >= WriteVersion(writes[i])
    \/ /\ resp.status = 404
       /\ \E j \in (i + 1)..Len(writes) :
            writes[j].key = writes[i].key /\ writes[j].method = "DELETE"

\* Every GET that holds the read guard is about to observe each PUT of its key that
\* has released the write guard.
C15_Holding ==
    \A t \in TaskIds :
        (tasks[t].pc = "locked" /\ tasks[t].op = "GET") =>
            \A i \in 1..Len(writes) :
                (writes[i].key = tasks[t].key /\ writes[i].method = "PUT")
                => Observes(get_locked(Db, tasks[t].key, now), i)

\* A step in which a GET returns from under the read guard: its response observes
\* every PUT of the key released before, and its version is not below the version the
\* GET returned before it showed for the key.
C15_Step ==
    \A t \in TaskIds :
        (tasks[t].pc = "locked" /\ tasks[t].op = "GET" /\ tasks'[t].pc = "idle") =>
            /\ \A i \in 1..Len(writes) :
                 (writes[i].key = tasks[t].key /\ writes[i].method = "PUT")
                 => Observes(last'.resp, i)
            /\ (last.op = "GET" /\ last.key = tasks[t].key
                  /\ last.resp.status = 200 /\ last'.resp.status = 200)
               => Unwrap(parse_etag(last'.resp)) >= Unwrap(parse_etag(last.resp))

\* C15: in every interleaving, a GET of key K that acquires the read lock after a fresh
\* PUT of K released the write lock observes that PUT or a later write of K; it never
\* returns a version below that PUT's, and successive reads of K never go back.
C15_MonotonicReads == []C15_Holding /\ [][C15_Step]_vars

\* A GET returned the version of the second of two PUTs of its key while another PUT
\* was waiting for the write lock.
C15_Witness ==
    /\ Len(writes) = 2
    /\ writes[1].method = "PUT" /\ writes[2].method = "PUT"
    /\ last.op = "GET" /\ last.resp.status = 200
    /\ last.resp.etag = writes[2].etag
    /\ last.resp.body = writes[2].value /\ writes[1].value # writes[2].value
    /\ \E t \in TaskIds : tasks[t].pc = "wait" /\ tasks[t].op = "PUT"

\* The tasks that are inside a critical section, by their position
WritersInside == {t \in TaskIds : tasks[t].op \in {"PUT", "DELETE"}
                                   /\ tasks[t].pc \in {"locked", "bumped", "stored"}}
ReadersInside == {t \in TaskIds : tasks[t].op = "GET" /\ tasks[t].pc = "locked"}

\* C16: the one reader-writer lock admits any number of GET handlers at once, a PUT or
\* DELETE handler only alone: in no reachable state does a handler hold the write lock
\* while another handler holds the read or the write lock. The guards out are exactly
\* those of the handlers inside their critical sections.
C16_WriterAlone ==
    /\ lock.writer = WritersInside
    /\ lock.readers = ReadersInside
    /\ Cardinality(lock.writer) <= 1
    /\ lock.writer # {} => lock.readers = {}

\* Two GET handlers hold the read lock at once, after a mutation was made.
C16_Witness ==
    /\ Cardinality(lock.readers) = 2
    /\ lock.writer = {}
    /\ next_version > 0

\* A second reachable case of C16: a PUT holds the write lock between its assignments
\* while a GET waits for the read lock.
C16_WriterHolds ==
    \E t, u \in TaskIds :
        /\ lock.writer = {t} /\ tasks[t].pc = "bumped"
        /\ tasks[u].pc = "wait" /\ tasks[u].op = "GET"

\* A step of a handler that waits for the lock, or has not come to it yet, leaves
\* DbState and the lock as they are unless it is the grant of the guard; from waiting
\* a handler goes on to its critical section or returns 503, nothing else; 503 with
\* the timeout message is returned by such a step only; a handler that returns leaves
\* with a state-machine response or 503.
C17_Step ==
    /\ \A t \in TaskIds :
         /\ (tasks[t].pc \in {"idle", "wait"} /\ tasks'[t] # tasks[t]) => UnchangedDb
         /\ (tasks[t].pc = "wait" /\ tasks'[t] # tasks[t]) =>
              \/ tasks'[t] = [tasks[t] EXCEPT !.pc = "locked"]
              \/ /\ tasks'[t] = Idle
                 /\ last'.resp = error_response(503, MsgLock)
                 /\ last'.key = tasks[t].key /\ last'.op = tasks[t].op
                 /\ lock' = lock /\ t \notin lock.writer \cup lock.readers
         /\ (tasks[t].pc # "idle" /\ tasks'[t] = Idle) =>
              last'.resp.status \in {200, 204, 404, 422, 503}
    /\ (last' # last /\ last'.resp.status = 503) =>
         \E t \in TaskIds : tasks[t].pc = "wait" /\ tasks'[t] = Idle

\* No handler waits for the lock, or stays in its critical section, forever.
C17_Returns ==
    \A t \in TaskIds : (tasks[t].pc # "idle") ~> (tasks[t].pc = "idle")

\* C17: a handler that does not get the lock within LOCK_TIMEOUT answers 503 "Server
\* error: Lock acquisition timed out", without a second attempt and without having
\* read or changed DbState; every request that passed the preamble ends with its
\* state-machine response or with 503 and never waits for the lock forever.
C17_LockTimeout == [][C17_Step]_vars /\ C17_Returns

\* A DELETE was answered 503 while a PUT held the write lock in the middle of its
\* mutation; the token of the DELETE is not recorded and the key is not a tombstone.
C17_Witness ==
    /\ last.op = "DELETE" /\ last.resp = error_response(503, MsgLock)
    /\ Unwrap(last.idempotency_key) \notin DOMAIN idempotency_cache
    /\ \E t \in TaskIds : /\ lock.writer = {t}
                          /\ tasks[t].op = "PUT" /\ tasks[t].pc = "stored"
    /\ store["k"].value # None

----------------------------------------------------------------------------
(* The history checker of the stress tests *)

\* ViolationKind
VersionNotFound(actual) == [tag |-> "VersionNotFound", actual |-> actual]
ReadBeforeWriteStart(put_start_ts, get_ack_ts) ==
    [tag |-> "ReadBeforeWriteStart", put_start_ts |-> put_start_ts, get_ack_ts |-> get_ack_ts]
ValueMismatch(expected, actual) ==
    [tag |-> "ValueMismatch", expected |-> expected, actual |-> actual]
\* latest_known_version is an Option<u64>
StaleDataReturned(latest_known_version) ==
    [tag |-> "StaleDataReturned", latest_known_version |-> latest_known_version]

Violation(key, version, kind) == [key |-> key, version |-> version, kind |-> kind]

PutEntry(value, put_start_ts, put_ack_ts) ==
    [value |-> value, put_start_ts |-> put_start_ts, put_ack_ts |-> put_ack_ts]

DeleteEntry(del_start_ts, del_ack_ts) ==
    [del_start_ts |-> del_start_ts, del_ack_ts |-> del_ack_ts]

\* Iterator::map over a Vec
MapSeq(seq, F(_)) == IF seq = <<>> THEN <<>> ELSE [i \in 1..Len(seq) |-> F(seq[i])]

\* Mutant: the index takes the tombstones in as writes of an empty value.
build_write_index_WithTombstones(records) ==
    LET puts == SelectSeq(records, LAMBDA r : r.outcome.tag \in {"PutOk", "DeleteOk"})
    IN  [kv \in {<<puts[i].key, puts[i].outcome.version>> : i \in 1..Len(puts)} |->
            MapSeq(SelectSeq(puts, LAMBDA r : r.key = kv[1] /\ r.outcome.version = kv[2]),
                   LAMBDA r : PutEntry(IF r.outcome.tag = "PutOk" THEN r.outcome.value ELSE "",
                                       r.client_start_ts, r.client_ack_ts))]

\* (key, version) -> every PutOk record of that key and version, in the order recorded
build_write_index(records) ==
    LET puts == SelectSeq(records, LAMBDA r : r.outcome.tag = "PutOk")
    IN  [kv \in {<<puts[i].key, puts[i].outcome.version>> : i \in 1..Len(puts)} |->
            MapSeq(SelectSeq(puts, LAMBDA r : r.key = kv[1] /\ r.outcome.version = kv[2]),
                   LAMBDA r : PutEntry(r.outcome.value, r.client_start_ts, r.client_ack_ts))]

\* key -> every DeleteOk record of that key, in the order recorded
build_delete_index(records) ==
    LET dels == SelectSeq(records, LAMBDA r : r.outcome.tag = "DeleteOk")
    IN  [key \in {dels[i].key : i \in 1..Len(dels)} |->
            MapSeq(SelectSeq(dels, LAMBDA r : r.key = key),
                   LAMBDA r : DeleteEntry(r.client_start_ts, r.client_ack_ts))]

\* superseding_delete: Some(()) if a DELETE of the key started at or after put_ack_ts
\* and was acked before get_start_ts
superseding_delete(delete_index, key, put_ack_ts, get_start_ts) ==
    IF key \notin DOMAIN delete_index THEN None
    ELSE IF \E i \in 1..Len(delete_index[key]) :
                /\ delete_index[key][i].del_start_ts >= put_ack_ts
                /\ delete_index[key][i].del_ack_ts < get_start_ts
         THEN Some(<<>>)
         ELSE None

\* latest_known_version: the highest version of the key above returned_version with a
\* PUT acked before get_start_ts
latest_known_version(write_index, key, returned_version, get_start_ts) ==
    LET newer == {kv[2] : kv \in {x \in DOMAIN write_index :
                        /\ x[1] = key
                        /\ x[2] > returned_version
                        /\ \E i \in 1..Len(write_index[x]) :
                                write_index[x][i].put_ack_ts < get_start_ts}}
    IN  IF newer = {} THEN None
        ELSE Some(CHOOSE v \in newer : \A u \in newer : u <= v)

\* Iterator::max_by_key(put_start_ts): the last of the elements with the greatest key
MaxByStart(entries) ==
    entries[CHOOSE i \in 1..Len(entries) : \A j \in 1..Len(entries) :
                \/ entries[j].put_start_ts < entries[i].put_start_ts
                \/ entries[j].put_start_ts = entries[i].put_start_ts /\ j <= i]

\* Iterator::min_by_key(put_start_ts): the first of the elements with the least key
MinByStart(entries) ==
    entries[CHOOSE i \in 1..Len(entries) : \A j \in 1..Len(entries) :
                \/ entries[j].put_start_ts > entries[i].put_start_ts
                \/ entries[j].put_start_ts = entries[i].put_start_ts /\ j >= i]

\* Mutant: a PUT acked at the very instant the GET started does not count as acked.
classify_get_AckStrict(key, version, value, get_start, get_ack, write_index, delete_index) ==
    IF <<key, version>> \notin DOMAIN write_index
    THEN Some(VersionNotFound(value))
    ELSE
    LET entries == write_index[<<key, version>>]
        acked   == SelectSeq(entries, LAMBDA e : e.put_ack_ts < get_start)
    IN  IF acked = <<>>
        THEN IF MinByStart(entries).put_start_ts > get_ack
             THEN Some(ReadBeforeWriteStart(MinByStart(entries).put_start_ts, get_ack))
             ELSE None
        ELSE
        LET entry == MaxByStart(acked)
        IN  IF entry.value # value
            THEN Some(ValueMismatch(entry.value, value))
            ELSE IF IsSome(superseding_delete(delete_index, key, entry.put_ack_ts, get_start))
            THEN Some(StaleDataReturned(None))
            ELSE IF IsSome(latest_known_version(write_index, key, version, get_start))
            THEN Some(StaleDataReturned(
                        Some(Unwrap(latest_known_version(write_index, key, version, get_start)))))
            ELSE None

\* classify_get: Option<ViolationKind> for one GetOk
classify_get(key, version, value, get_start, get_ack, write_index, delete_index) ==
    IF <<key, version>> \notin DOMAIN write_index
    THEN Some(VersionNotFound(value))
    ELSE
    LET entries == write_index[<<key, version>>]
        acked   == SelectSeq(entries, LAMBDA e : e.put_ack_ts <= get_start)
    IN  IF acked = <<>>
        THEN IF MinByStart(entries).put_start_ts > get_ack
             THEN Some(ReadBeforeWriteStart(MinByStart(entries).put_start_ts, get_ack))
             ELSE None
        ELSE
        LET entry == MaxByStart(acked)
        IN  IF entry.value # value
            THEN Some(ValueMismatch(entry.value, value))
            ELSE IF IsSome(superseding_delete(delete_index, key, entry.put_ack_ts, get_start))
            THEN Some(StaleDataReturned(None))
            ELSE IF IsSome(latest_known_version(write_index, key, version, get_start))
            THEN Some(StaleDataReturned(
                        Some(Unwrap(latest_known_version(write_index, key, version, get_start)))))
            ELSE None

\* History::check_correctness: one Violation per inconsistent GetOk, in record order
check_correctness_FirstViolationOnly(records) ==
    LET write_index  == build_write_index(records)
        delete_index == build_delete_index(records)
        kind(r) == classify_get(r.key, r.outcome.version, r.outcome.value,
                                r.client_start_ts, r.client_ack_ts, write_index, delete_index)
        found == SelectSeq(records, LAMBDA r : r.outcome.tag = "GetOk" /\ IsSome(kind(r)))
        all == MapSeq(found, LAMBDA r : Violation(r.key, r.outcome.version, Unwrap(kind(r))))
    IN  IF all = <<>> THEN all ELSE <<Head(all)>>

\* Mutant: every violation is reported twice.
check_correctness_ReportsTwice(records) ==
    LET write_index  == build_write_index(records)
        delete_index == build_delete_index(records)
        kind(r) == classify_get(r.key, r.outcome.version, r.outcome.value,
                                r.client_start_ts, r.client_ack_ts, write_index, delete_index)
        found == SelectSeq(records, LAMBDA r : r.outcome.tag = "GetOk" /\ IsSome(kind(r)))
        all == MapSeq(found, LAMBDA r : Violation(r.key, r.outcome.version, Unwrap(kind(r))))
    IN  all \o all

check_correctness(records) ==
    LET write_index  == build_write_index(records)
        delete_index == build_delete_index(records)
        kind(r) == classify_get(r.key, r.outcome.version, r.outcome.value,
                                r.client_start_ts, r.client_ack_ts, write_index, delete_index)
        found == SelectSeq(records, LAMBDA r : r.outcome.tag = "GetOk" /\ IsSome(kind(r)))
    IN  MapSeq(found, LAMBDA r : Violation(r.key, r.outcome.version, Unwrap(kind(r))))

----------------------------------------------------------------------------
(* SpecHistory: check_correctness applied to the histories of a bounded set *)

\* Instants 0..MaxTs; an operation's window is start <= ack
MaxTs == 2
Windows == {w \in (0..MaxTs) \X (0..MaxTs) : w[1] <= w[2]}

HistVersions == 1..3
HistValues   == {"a", "b"}

\* The write of one version, if the history has one: a PutOk or a DeleteOk of key "k"
WriteOf(v, values) ==
    {<<>>}
    \cup {<<OpRecord(w[1], w[2], "k", "Put", PutOk(v, value))>> :
            w \in Windows, value \in values}
    \cup {<<OpRecord(w[1], w[2], "k", "Delete", DeleteOk(v))>> : w \in Windows}

\* The GET under test: it returned "a" for a version that is not the greatest
GetsOf ==
    {<<OpRecord(w[1], w[2], "k", "Get", GetOk(v, "a"))>> : w \in Windows, v \in {1, 2}}

InitHistory ==
    /\ InitServer /\ role = "Primary" /\ now = 1
    /\ tasks = [t \in TaskIds |-> Idle]
    /\ lock = FreeLock
    /\ instant = 0
    /\ workers = [w \in WorkerIds |-> IdleWorker]
    \* versions are unique: at most one write per version; the record of the GET
    \* comes after them (SpecOrder has the records in every order)
    /\ history \in {w1 \o w2 \o w3 \o g :
                        w1 \in WriteOf(1, HistValues), w2 \in WriteOf(2, HistValues),
                        w3 \in WriteOf(3, {"a"}), g \in GetsOf}
    /\ violations = None
    /\ InitClient

\* let violations = history.check_correctness()
CheckCorrectness ==
    /\ violations = None
    /\ violations' = Some(check_correctness(history))
    /\ UNCHANGED <<served, clientVars, role, now, store, idempotency_cache, next_version, last, writes, tasks, lock,
                   instant, workers, history>>

NextHistory == CheckCorrectness

SpecHistory == InitHistory /\ [][NextHistory]_vars

----------------------------------------------------------------------------
(* SpecOrder: check_correctness applied to a history and to its reorderings *)

\* Records a history holds at most
MaxRecords == 3

\* <<client_start_ts, client_ack_ts>>: equal, overlapping and disjoint windows
OrderWindows == {<<0, 0>>, <<0, 1>>, <<1, 1>>}

\* Any records of key "k": versions may repeat and any window may meet any other
OrderRecords ==
    {OpRecord(w[1], w[2], "k", "Put", PutOk(1, value)) : w \in OrderWindows, value \in HistValues}
    \cup {OpRecord(w[1], w[2], "k", "Put", PutOk(2, "a")) : w \in OrderWindows}
    \cup {OpRecord(w[1], w[2], "k", "Delete", DeleteOk(2)) : w \in OrderWindows}
    \cup {OpRecord(w[1], w[2], "k", "Get", GetOk(v, "a")) : w \in OrderWindows, v \in {1, 2}}

InitOrder ==
    /\ InitServer /\ role = "Primary" /\ now = 1
    /\ tasks = [t \in TaskIds |-> Idle]
    /\ lock = FreeLock
    /\ instant = 0
    /\ workers = [w \in WorkerIds |-> IdleWorker]
    /\ history \in UNION {[1..n -> OrderRecords] : n \in 0..MaxRecords}
    /\ violations = None
    /\ InitClient

\* The records of a history in another order (History is a plain Vec)
Reordered(records) ==
    {[i \in 1..Len(records) |-> records[p[i]]] : p \in Permutations(1..Len(records))}

\* check_correctness called again on the same records in another order
Shuffle ==
    /\ IsSome(violations)
    /\ \E h \in Reordered(history) \ {history} :
        /\ history' = h
        /\ violations' = Some(check_correctness(h))
    /\ UNCHANGED <<served, clientVars, role, now, store, idempotency_cache, next_version, last, writes, tasks, lock,
                   instant, workers>>

NextOrder ==
    \/ CheckCorrectness
    \/ Shuffle

SpecOrder == InitOrder /\ [][NextOrder]_vars

----------------------------------------------------------------------------
(* The client library, from the response on *)

\* Result<T, TransDbError>
Ok(value)  == [tag |-> "Ok", value |-> value]
Err(error) == [tag |-> "Err", error |-> error]

\* GetResult
GetResult(value, version, expired) == [value |-> value, version |-> version, expired |-> expired]

\* status.is_success()
is_success(status) == status \in 200..299

\* TransDbError
KeyNotFound(key)           == [tag |-> "KeyNotFound", key |-> key]
HttpError(status, message) == [tag |-> "HttpError", status |-> status, message |-> message]
KeyTooLarge(max)           == [tag |-> "KeyTooLarge", max |-> max]
ValueTooLarge(max)         == [tag |-> "ValueTooLarge", max |-> max]
MissingETag                == [tag |-> "MissingETag"]
NetworkError               == [tag |-> "NetworkError"]

\* The unit value ()
Unit == <<>>

\* response.json::<ErrorResponse>(): the error field, when the body is that JSON
error_json(resp) == IF resp.error = <<>> THEN None ELSE Some(resp.error)

\* parse_error_response
parse_error_response(status, key, resp) ==
    IF status = 404 THEN KeyNotFound(key)
    ELSE HttpError(status, IF IsSome(error_json(resp)) THEN Unwrap(error_json(resp))
                           ELSE <<"Server returned status: ", status>>)

\* Mutant: the value is not checked before the request is sent.
preflight_KeyOnly(key, value) ==
    IF KeyLen(key) > MAX_KEY_SIZE THEN Some(KeyTooLarge(MAX_KEY_SIZE)) ELSE None

\* The size checks the client makes before it sends anything; "" stands for the
\* methods that carry no value
preflight(key, value) ==
    IF KeyLen(key) > MAX_KEY_SIZE THEN Some(KeyTooLarge(MAX_KEY_SIZE))
    ELSE IF value # "" /\ BodyLen(value) > MAX_VALUE_SIZE THEN Some(ValueTooLarge(MAX_VALUE_SIZE))
    ELSE None

\* response.bytes(): the body, empty when there is none
body_bytes(resp) == IF resp.body = None THEN "" ELSE Unwrap(resp.body)

\* Client::get_allowing_expired, given the response
get_allowing_expired(key, resp) ==
    IF ~is_success(resp.status) THEN Err(parse_error_response(resp.status, key, resp))
    ELSE IF parse_etag(resp) = None THEN Err(MissingETag)
    ELSE Ok(GetResult(body_bytes(resp), Unwrap(parse_etag(resp)), resp.x_expired))

\* Mutant: get hands the expired entry on as get_allowing_expired does.
client_get_KeepsExpired(key, resp) == get_allowing_expired(key, resp)

\* Client::get: an expired entry is reported as KeyNotFound
client_get(key, resp) ==
    IF get_allowing_expired(key, resp).tag = "Ok" /\ get_allowing_expired(key, resp).value.expired
    THEN Err(KeyNotFound(key))
    ELSE get_allowing_expired(key, resp)

\* Mutant: a 2xx whose ETag does not parse passes for version 0.
put_impl_DefaultVersion(key, resp) ==
    IF ~is_success(resp.status) THEN Err(parse_error_response(resp.status, key, resp))
    ELSE IF parse_etag(resp) = None THEN Ok(0)
    ELSE Ok(Unwrap(parse_etag(resp)))

\* Client::put_impl, given the response
put_impl(key, resp) ==
    IF ~is_success(resp.status) THEN Err(parse_error_response(resp.status, key, resp))
    ELSE IF parse_etag(resp) = None THEN Err(MissingETag)
    ELSE Ok(Unwrap(parse_etag(resp)))

\* Client::delete of transdb-client, given the response: Result<()>
delete(key, resp) ==
    IF ~is_success(resp.status) THEN Err(parse_error_response(resp.status, key, resp))
    ELSE Ok(Unit)

\* Client::delete as the stress worker calls it, given the response: Option<version>
client_delete(key, resp) ==
    IF ~is_success(resp.status) THEN Err(parse_error_response(resp.status, key, resp))
    ELSE IF resp.status = 204 THEN Ok(None)
    ELSE IF parse_etag(resp) = None THEN Err(MissingETag)
    ELSE Ok(Some(Unwrap(parse_etag(resp))))

\* Uuid::new_v4(): a token no earlier call used
Uuids == <<"u1", "u2", "u3", "u4", "u5", "u6">>

\* execute_op: the OpOutcome for what the client call returned
execute_op(kind, value, result) ==
    CASE kind = "Get" ->
            IF result.tag = "Ok" THEN GetOk(result.value.version, result.value.value)
            ELSE IF result.error.tag = "KeyNotFound" THEN NotFound
            ELSE Error
      [] kind = "Put" ->
            IF result.tag = "Ok" THEN PutOk(result.value, value) ELSE Error
      [] kind = "Delete" ->
            IF result.tag = "Ok"
            THEN IF IsSome(result.value) THEN DeleteOk(Unwrap(result.value)) ELSE NotFound
            ELSE Error

----------------------------------------------------------------------------
(* SpecReplay: the primary serving requests one by one, each request remembered *)

\* Requests served in all
MaxServed == 4

ReplayTokens == {"t1", "t2", "t3"}
ReplayTimes  == {1, 2}

\* GET, PUT and DELETE of one key, the mutations with a token that may come again
ReplayRequests ==
    {<<"GET", "k", None, "">>}
    \cup {<<"PUT", "k", Some(t), "a">> : t \in ReplayTokens}
    \cup {<<"DELETE", "k", Some(t), "">> : t \in ReplayTokens}

\* A request answered: the call, and the DbState before and after it
Answered(answer, before, after) == [call |-> answer, before |-> before, after |-> after]

\* What the handler of the route does with the request
Routed(op, key, headers, body) ==
    CASE op = "GET"    -> handle_get(Db, role, key, now)
      [] op = "PUT"    -> route_put(Db, role, key, headers, body)
      [] op = "DELETE" -> handle_delete(Db, role, key, headers, now)

\* The primary handles one request, the handler run whole
ServeRequest(op, key, idempotency_key, body) ==
    /\ Len(served) < MaxServed
    /\ \E out \in {Routed(op, key, Headers(idempotency_key, None), body)} :
        /\ SetDb(out.db)
        /\ last' = Call(op, key, idempotency_key, out.resp)
        /\ writes' = IF op = "GET" THEN writes
                     ELSE Logged(op, key, Headers(idempotency_key, None),
                                 IF op = "PUT" THEN Some(body) ELSE None, out)
        /\ served' = Append(served, Answered(Call(op, key, idempotency_key, out.resp),
                                             Db, out.db))
    /\ UNCHANGED <<clientVars, stressVars, role, now, tasks, lock>>

InitReplay ==
    /\ Init
    /\ role = "Primary"
    /\ now = 1

NextReplay ==
    \/ \E r \in ReplayRequests : ServeRequest(r[1], r[2], r[3], r[4])
    \/ Tick(ReplayTimes)

SpecReplay == InitReplay /\ [][NextReplay]_vars

----------------------------------------------------------------------------
(* SpecClient: one client calling its methods against a node or a mock server *)

\* Calls the client makes in all
MaxCalls == 3

ClientKeys   == {"k", "kover"}
ClientTimes  == {1, 3}
ClientValues == {"a", "bover"}

\* The public methods with their arguments: <<method, key, value, ttl>>
ClientCalls ==
    {<<m, key, "", None>> : m \in {"get", "get_allowing_expired", "delete"}, key \in ClientKeys}
    \cup {<<"put", key, value, None>> : key \in ClientKeys, value \in ClientValues}
    \cup {<<"put_with_ttl", key, value, Some(TtlGood)>> : key \in ClientKeys, value \in ClientValues}

\* A method call: where it stands, its arguments, the requests it sent, the response
\* it read and what it returned
ClientCall(pc, n, method, key, value, ttl, sent, response, result) ==
    [pc |-> pc, n |-> n, method |-> method, key |-> key, value |-> value, ttl |-> ttl,
     sent |-> sent, response |-> response, result |-> result]

\* Responses of a mockito server: any status, the ETag present, absent or not a
\* number, X-Expired set or not, the body the error JSON or something else
MockResponses ==
    {Response(200, Some(etag_value(7)), Some("a"), expired, <<>>) : expired \in BOOLEAN}
    \cup {Response(200, None, Some("a"), FALSE, <<>>),
          Response(200, Some(<<"x">>), Some("a"), FALSE, <<>>),
          NoContent,
          error_response(404, MsgNotFound("k")),
          error_response(503, MsgLock),
          error_response(500, <<>>)}

\* The method is called: the size checks, then the request goes out
Invoke(method, key, value, ttl) ==
    /\ call.pc \in {"idle", "done"}
    /\ call.n < MaxCalls
    /\ call' = IF IsSome(preflight(key, value))
               THEN ClientCall("done", call.n + 1, method, key, value, ttl, 0, None,
                               Some(Err(Unwrap(preflight(key, value)))))
               ELSE ClientCall("sent", call.n + 1, method, key, value, ttl, 1, None, None)
    /\ UNCHANGED <<served, stressVars, reachable, role, now, store, idempotency_cache, next_version,
                   last, writes, tasks, lock>>

\* What the method returns for the response it read
ClientReturned(method, key, resp) ==
    CASE method = "get"                    -> client_get(key, resp)
      [] method = "get_allowing_expired"   -> get_allowing_expired(key, resp)
      [] method \in {"put", "put_with_ttl"} -> put_impl(key, resp)
      [] method = "delete"                 -> delete(key, resp)

\* send() fails, nothing listens at the target address: NetworkError
ConnectFails ==
    /\ call.pc = "sent"
    /\ ~reachable
    /\ call' = [call EXCEPT !.pc = "done", !.result = Some(Err(NetworkError))]
    /\ UNCHANGED <<served, stressVars, reachable, role, now, store, idempotency_cache, next_version,
                   last, writes, tasks, lock>>

\* The response of the node to the request of the client, the handler run whole
NodeServed ==
    CASE call.method \in {"get", "get_allowing_expired"} ->
            handle_get(Db, role, call.key, now)
      [] call.method \in {"put", "put_with_ttl"} ->
            route_put(Db, role, call.key, Headers(Some(Uuids[call.n]), call.ttl), call.value)
      [] call.method = "delete" ->
            handle_delete(Db, role, call.key, Headers(Some(Uuids[call.n]), None), now)

\* The node handles the request and the client reads the response
NodeAnswers ==
    /\ call.pc = "sent"
    /\ reachable
    /\ \E out \in {NodeServed} :
        /\ SetDb(out.db)
        /\ last' = Call(IF call.method \in {"get", "get_allowing_expired"} THEN "GET"
                        ELSE IF call.method = "delete" THEN "DELETE" ELSE "PUT",
                        call.key,
                        IF call.method \in {"get", "get_allowing_expired"} THEN None
                        ELSE Some(Uuids[call.n]),
                        out.resp)
        /\ writes' = IF out.fresh
                     THEN Append(writes, Write(IF call.method = "delete" THEN "DELETE" ELSE "PUT",
                                    call.key, Uuids[call.n],
                                    IF call.method = "delete" THEN None ELSE Some(call.value),
                                    out.resp.etag))
                     ELSE writes
        /\ call' = [call EXCEPT !.pc = "done", !.response = Some(out.resp),
                        !.result = Some(ClientReturned(call.method, call.key, out.resp))]
    /\ UNCHANGED <<served, stressVars, reachable, role, now, tasks, lock>>

\* A mock server answers in place of the node
MockAnswers(resp) ==
    /\ call.pc = "sent"
    /\ reachable
    /\ call' = [call EXCEPT !.pc = "done", !.response = Some(resp),
                    !.result = Some(ClientReturned(call.method, call.key, resp))]
    /\ UNCHANGED <<served, stressVars, reachable, role, now, store, idempotency_cache, next_version,
                   last, writes, tasks, lock>>

InitClientRun ==
    /\ InitServer /\ role \in Roles /\ now = 1
    /\ tasks = [t \in TaskIds |-> Idle]
    /\ lock = FreeLock
    /\ instant = 0
    /\ workers = [w \in WorkerIds |-> IdleWorker]
    /\ history = <<>>
    /\ violations = None
    /\ reachable \in BOOLEAN
    /\ call = NoClientCall
    /\ served = <<>>

NextClient ==
    \/ \E c \in ClientCalls : Invoke(c[1], c[2], c[3], c[4])
    \/ ConnectFails
    \/ NodeAnswers
    \/ \E resp \in MockResponses : MockAnswers(resp)
    \/ Tick(ClientTimes)

SpecClient == InitClientRun /\ [][NextClient]_vars

----------------------------------------------------------------------------
(* SpecStress: clients record a history against the primary, then it is checked *)

\* Operations the run issues in all
MaxOps == 3

StressKeys   == {"k"}
StressValues == {"a", "b"}
StressOps    == {<<"Get", "">>} \cup {<<"Put", v>> : v \in StressValues} \cup {<<"Delete", "">>}

OpsSent == Len(history) + Cardinality({w \in WorkerIds : workers[w].pc # "idle"})

\* let op_start = Instant::now(); execute_op up to the request being on its way
SendOp(w, kind, key, value) ==
    /\ violations = None
    /\ workers[w].pc = "idle"
    /\ OpsSent < MaxOps
    /\ workers' = [workers EXCEPT ![w] =
            IF IsSome(preflight(key, value))
            THEN Worker("answered", kind, key, value, Uuids[OpsSent + 1], instant,
                        execute_op(kind, value, Err(Unwrap(preflight(key, value)))))
            ELSE Worker("sent", kind, key, value, Uuids[OpsSent + 1], instant, Error)]
    /\ UNCHANGED <<served, clientVars, role, now, store, idempotency_cache, next_version, last, writes, tasks, lock,
                   instant, history, violations>>

\* The response of the primary to the request of the client, the handler run whole
Served(w) ==
    CASE workers[w].kind = "Get" ->
            handle_get(Db, role, workers[w].key, now)
      [] workers[w].kind = "Put" ->
            route_put(Db, role, workers[w].key, Headers(Some(workers[w].token), None),
                      workers[w].value)
      [] workers[w].kind = "Delete" ->
            handle_delete(Db, role, workers[w].key, Headers(Some(workers[w].token), None), now)

\* What the client library makes of the response
Returned(w, resp) ==
    CASE workers[w].kind = "Get"    -> client_get(workers[w].key, resp)
      [] workers[w].kind = "Put"    -> put_impl(workers[w].key, resp)
      [] workers[w].kind = "Delete" -> client_delete(workers[w].key, resp)

\* The primary handles the request and the client reads the response
ServeOp(w) ==
    /\ workers[w].pc = "sent"
    /\ \E out \in {Served(w)} :
        /\ SetDb(out.db)
        /\ last' = Call(IF workers[w].kind = "Get" THEN "GET"
                        ELSE IF workers[w].kind = "Put" THEN "PUT" ELSE "DELETE",
                        workers[w].key,
                        IF workers[w].kind = "Get" THEN None ELSE Some(workers[w].token),
                        out.resp)
        /\ writes' = IF out.fresh
                     THEN Append(writes, Write(IF workers[w].kind = "Put" THEN "PUT" ELSE "DELETE",
                                    workers[w].key, workers[w].token,
                                    IF workers[w].kind = "Put" THEN Some(workers[w].value) ELSE None,
                                    out.resp.etag))
                     ELSE writes
        /\ workers' = [workers EXCEPT ![w].pc = "answered",
                            ![w].outcome = execute_op(workers[w].kind, workers[w].value,
                                                      Returned(w, out.resp))]
    /\ UNCHANGED <<served, clientVars, role, now, tasks, lock, instant, history, violations>>

\* The handler does not get the lock within LOCK_TIMEOUT while another request is
\* being handled: 503, the state untouched
ServerBusy(w) ==
    /\ workers[w].pc = "sent"
    /\ \E other \in WorkerIds \ {w} : workers[other].pc = "sent"
    /\ workers' = [workers EXCEPT ![w].pc = "answered",
                        ![w].outcome = execute_op(workers[w].kind, workers[w].value,
                                            Returned(w, error_response(503, MsgLock)))]
    /\ UNCHANGED <<served, clientVars, role, now, store, idempotency_cache, next_version, last, writes, tasks, lock,
                   instant, history, violations>>

\* send() fails before the request reaches the primary: NetworkError
SendFails(w) ==
    /\ workers[w].pc = "sent"
    /\ workers' = [workers EXCEPT ![w].pc = "answered",
                        ![w].outcome = execute_op(workers[w].kind, workers[w].value,
                                                  Err(NetworkError))]
    /\ UNCHANGED <<served, clientVars, role, now, store, idempotency_cache, next_version, last, writes, tasks, lock,
                   instant, history, violations>>

\* send() or bytes() fails after the primary handled the request: NetworkError
ResponseLost(w) ==
    /\ workers[w].pc = "answered"
    /\ workers[w].outcome # Error
    /\ workers' = [workers EXCEPT ![w].outcome =
                        execute_op(workers[w].kind, workers[w].value, Err(NetworkError))]
    /\ UNCHANGED <<served, clientVars, role, now, store, idempotency_cache, next_version, last, writes, tasks, lock,
                   instant, history, violations>>

\* let op_end = Instant::now(); records.push(OpRecord { .. })
RecordOp(w) ==
    /\ workers[w].pc = "answered"
    /\ history' = Append(history, OpRecord(workers[w].op_start, instant, workers[w].key,
                                           workers[w].kind, workers[w].outcome))
    /\ workers' = [workers EXCEPT ![w] = IdleWorker]
    /\ UNCHANGED <<served, clientVars, role, now, store, idempotency_cache, next_version, last, writes, tasks, lock,
                   instant, violations>>

\* The monotonic clock moves on
Elapse ==
    /\ violations = None
    /\ instant < MaxTs
    /\ instant' = instant + 1
    /\ UNCHANGED <<served, clientVars, role, now, store, idempotency_cache, next_version, last, writes, tasks, lock,
                   workers, history, violations>>

\* The run is over: let violations = history.check_correctness()
CheckRun ==
    /\ \A w \in WorkerIds : workers[w].pc = "idle"
    /\ CheckCorrectness

InitStressRun ==
    /\ InitServer /\ role = "Primary" /\ now = 1
    /\ tasks = [t \in TaskIds |-> Idle]
    /\ lock = FreeLock
    /\ InitStress

NextStress ==
    \/ \E w \in WorkerIds, op \in StressOps, key \in StressKeys : SendOp(w, op[1], key, op[2])
    \/ \E w \in WorkerIds : ServeOp(w)
    \/ \E w \in WorkerIds : ServerBusy(w)
    \/ \E w \in WorkerIds : SendFails(w)
    \/ \E w \in WorkerIds : ResponseLost(w)
    \/ \E w \in WorkerIds : RecordOp(w)
    \/ Elapse
    \/ CheckRun

SpecStress == InitStressRun /\ [][NextStress]_vars

----------------------------------------------------------------------------
(* Vocabulary of the history properties *)

\* The violations check_correctness reported for the GET of (key, version)
ViolationsOf(g) ==
    {Unwrap(violations)[j].kind : j \in {n \in 1..Len(Unwrap(violations)) :
            /\ Unwrap(violations)[n].key = g.key
            /\ Unwrap(violations)[n].version = g.outcome.version}}

GetOkRecords == {history[i] : i \in {n \in 1..Len(history) : history[n].outcome.tag = "GetOk"}}

\* The records of the writes, PUT or tombstone, that produced (key, version)
WritesOf(key, version) ==
    {history[i] : i \in {n \in 1..Len(history) :
            /\ history[n].outcome.tag \in {"PutOk", "DeleteOk"}
            /\ history[n].key = key
            /\ history[n].outcome.version = version}}

\* The versions above the GET's, of writes of its key acked strictly before it started
NewerAcked(g) ==
    {history[i].outcome.version : i \in {n \in 1..Len(history) :
            /\ history[n].outcome.tag \in {"PutOk", "DeleteOk"}
            /\ history[n].key = g.key
            /\ history[n].outcome.version > g.outcome.version
            /\ history[n].client_ack_ts < g.client_start_ts}}

MaxOf(S) == CHOOSE v \in S : \A u \in S : u <= v

\* C20: once check_correctness has run, every GetOk of a (key, version) that no PutOk
\* or DeleteOk record has, and every GetOk of a (key, version) whose only record is a
\* DeleteOk acked at or before the GET started, has a VersionNotFound violation that
\* carries the bytes the GET returned.
C20_VersionNotFound ==
    IsSome(violations) =>
        \A g \in GetOkRecords :
            LET ws == WritesOf(g.key, g.outcome.version)
            IN  (\/ ws = {}
                 \/ \A w \in ws : /\ w.outcome.tag = "DeleteOk"
                                  /\ w.client_ack_ts <= g.client_start_ts)
                => VersionNotFound(g.outcome.value) \in ViolationsOf(g)

\* A GET returned data for the version of a tombstone acked before it started, and
\* the checker reported VersionNotFound with the bytes of the GET.
C20_Witness ==
    /\ IsSome(violations)
    /\ \E g \in GetOkRecords :
        /\ \E w \in WritesOf(g.key, g.outcome.version) :
                w.outcome.tag = "DeleteOk" /\ w.client_ack_ts <= g.client_start_ts
        /\ VersionNotFound("a") \in ViolationsOf(g)

\* Both cases of the claim happen: a GET of a version nothing recorded.
C20_NoRecord ==
    /\ IsSome(violations)
    /\ \E g \in GetOkRecords :
        /\ WritesOf(g.key, g.outcome.version) = {}
        /\ Len(history) > 1
        /\ VersionNotFound("a") \in ViolationsOf(g)

\* The StaleDataReturned violations reported for the GET
StaleOf(g) == {k \in ViolationsOf(g) : k.tag = "StaleDataReturned"}

\* The GET returned what the PUT of its (key, version) wrote, and that PUT was acked
\* at or before the GET started
DefinitiveRead(g) ==
    \E w \in WritesOf(g.key, g.outcome.version) :
        /\ w.outcome.tag = "PutOk"
        /\ w.client_ack_ts <= g.client_start_ts
        /\ w.outcome.value = g.outcome.value

\* C19: once check_correctness has run, a GetOk whose matching write was acked at or
\* before the GET started and has the returned payload gets StaleDataReturned exactly
\* when some write of the key with a greater version, PUT or tombstone, was acked
\* strictly before the GET started, and latest_known_version is the greatest such
\* version.
C19_StaleExactly ==
    IsSome(violations) =>
        \A g \in GetOkRecords :
            DefinitiveRead(g) =>
                StaleOf(g) = IF NewerAcked(g) = {} THEN {}
                             ELSE {StaleDataReturned(Some(MaxOf(NewerAcked(g))))}

\* C18: once check_correctness has run on the history the clients recorded against
\* the primary, every violation it reports is a StaleDataReturned: there is no
\* VersionNotFound, ReadBeforeWriteStart or ValueMismatch, whatever the interleaving
\* of the clients and whichever operations were recorded as Error.
C18_NoHardViolation ==
    IsSome(violations) =>
        \A j \in 1..Len(Unwrap(violations)) :
            Unwrap(violations)[j].kind.tag = "StaleDataReturned"

\* C21: once check_correctness has run, a GetOk has a ReadBeforeWriteStart violation
\* exactly when the history has the write, PUT or tombstone, of its (key, version) and
\* that write started strictly after the GET was acked, wherever the write's record
\* stands in the history.
C21_ReadBeforeWriteStart ==
    IsSome(violations) =>
        \A g \in GetOkRecords :
            (\E k \in ViolationsOf(g) : k.tag = "ReadBeforeWriteStart")
            <=> (\E w \in WritesOf(g.key, g.outcome.version) :
                    w.client_start_ts > g.client_ack_ts)

\* C22: once check_correctness has run, a GetOk has a ValueMismatch violation exactly
\* when the PUT of its (key, version) was acked at or before the GET started and wrote
\* other bytes than the GET returned; expected is what the PUT wrote, actual what the
\* GET returned.
C22_ValueMismatch ==
    IsSome(violations) =>
        \A g \in GetOkRecords :
            /\ \A w \in WritesOf(g.key, g.outcome.version) :
                  (/\ w.outcome.tag = "PutOk"
                   /\ w.client_ack_ts <= g.client_start_ts
                   /\ w.outcome.value # g.outcome.value)
                  => ValueMismatch(w.outcome.value, g.outcome.value) \in ViolationsOf(g)
            /\ \A k \in ViolationsOf(g) :
                  k.tag = "ValueMismatch" =>
                      \E w \in WritesOf(g.key, g.outcome.version) :
                          /\ w.outcome.tag = "PutOk"
                          /\ w.client_ack_ts <= g.client_start_ts
                          /\ w.outcome.value # g.outcome.value
                          /\ k = ValueMismatch(w.outcome.value, g.outcome.value)

\* A GET that started at the instant the PUT of its version was acked returned other
\* bytes than the PUT wrote, and the checker reported the mismatch.
C22_Witness ==
    /\ IsSome(violations)
    /\ \E g \in GetOkRecords : \E w \in WritesOf(g.key, g.outcome.version) :
        /\ w.outcome.tag = "PutOk"
        /\ w.client_ack_ts = g.client_start_ts
        /\ ValueMismatch("b", "a") \in ViolationsOf(g)

\* The violations as a set: key, version and kind of each
ViolationSet(found) == {Unwrap(found)[j] : j \in 1..Len(Unwrap(found))}

\* C23: check_correctness called on the records of a history in another order reports
\* the same set of violations, key, version and kind of each.
C23_OrderIndependent ==
    [][(IsSome(violations) /\ IsSome(violations'))
        => ViolationSet(violations') = ViolationSet(violations)]_vars

\* No two PutOk records of one (key, version) started at the same instant; so it is
\* in every history whose versions are globally unique
DistinctPutStarts ==
    \A i, j \in 1..Len(history) :
        (/\ i # j
         /\ history[i].outcome.tag = "PutOk" /\ history[j].outcome.tag = "PutOk"
         /\ history[i].key = history[j].key
         /\ history[i].outcome.version = history[j].outcome.version)
        => history[i].client_start_ts # history[j].client_start_ts

\* C23 (amended): for a history in which no two PutOk records of one (key, version)
\* share a start timestamp, check_correctness called on the records in another order
\* reports the same set of violations, key, version and kind of each.
C23_OrderIndependentDistinctStarts ==
    [][(DistinctPutStarts /\ IsSome(violations) /\ IsSome(violations'))
        => ViolationSet(violations') = ViolationSet(violations)]_vars

\* check_correctness ran on a history whose GetOk record stands before the PutOk and
\* the DeleteOk records it is judged against, and reported two different violations.
C23_Witness ==
    /\ IsSome(violations)
    /\ DistinctPutStarts
    /\ Len(history) = 3
    /\ history[1].outcome.tag = "GetOk"
    /\ history[2].outcome.tag = "GetOk"
    /\ history[3].outcome.tag = "PutOk"
    /\ history[3].outcome.version = history[1].outcome.version
    /\ history[2].outcome.version # history[1].outcome.version
    /\ Cardinality(ViolationSet(violations)) = 2

\* The client's call has returned
Returns == call.pc = "done" /\ IsSome(call.result)

\* C24: a call of get, get_allowing_expired, put, put_with_ttl or delete with a key
\* longer than MAX_KEY_SIZE returns KeyTooLarge, and a call of put or put_with_ttl
\* with a key within the limit and a value longer than MAX_VALUE_SIZE returns
\* ValueTooLarge; no request was sent, the server reachable or not.
C24_PreflightSizeErrors ==
    /\ (call.pc # "idle" /\ KeyLen(call.key) > MAX_KEY_SIZE)
        => /\ Returns
           /\ Unwrap(call.result) = Err(KeyTooLarge(MAX_KEY_SIZE))
           /\ call.sent = 0
    /\ (/\ call.pc # "idle"
        /\ KeyLen(call.key) <= MAX_KEY_SIZE
        /\ call.method \in {"put", "put_with_ttl"}
        /\ BodyLen(call.value) > MAX_VALUE_SIZE)
        => /\ Returns
           /\ Unwrap(call.result) = Err(ValueTooLarge(MAX_VALUE_SIZE))
           /\ call.sent = 0

\* With nothing listening at the target, delete of an oversized key has returned
\* KeyTooLarge without a request.
C24_Witness ==
    /\ ~reachable
    /\ Returns
    /\ call.method = "delete"
    /\ KeyLen(call.key) > MAX_KEY_SIZE
    /\ Unwrap(call.result) = Err(KeyTooLarge(MAX_KEY_SIZE))
    /\ call.sent = 0

\* With nothing listening at the target, put_with_ttl of an oversized value has
\* returned ValueTooLarge without a request.
C24_ValueWitness ==
    /\ ~reachable
    /\ Returns
    /\ call.method = "put_with_ttl"
    /\ BodyLen(call.value) > MAX_VALUE_SIZE
    /\ Unwrap(call.result) = Err(ValueTooLarge(MAX_VALUE_SIZE))
    /\ call.sent = 0

\* C25: whatever response a get or get_allowing_expired call reads, get returns
\* KeyNotFound(key) where get_allowing_expired returns a result with expired = true,
\* and otherwise just what get_allowing_expired returns, value, version or error;
\* and when the node answers for a live entry whose TTL has passed, get returns
\* KeyNotFound(key) and get_allowing_expired the value, its version and expired = true.
C25_GetVsAllowingExpired ==
    [][(/\ call.pc = "sent"
        /\ call'.pc = "done"
        /\ call.method \in {"get", "get_allowing_expired"}
        /\ IsSome(call'.response))
       => LET key    == call.key
              resp   == Unwrap(call'.response)
              soft   == get_allowing_expired(key, resp)
              strong == client_get(key, resp)
              got    == Unwrap(call'.result)
          IN  /\ got = IF call.method = "get" THEN strong ELSE soft
              /\ IF soft.tag = "Ok" /\ soft.value.expired
                 THEN strong = Err(KeyNotFound(key))
                 ELSE strong = soft
              /\ (/\ role = "Primary"
                  /\ key \in DOMAIN store
                  /\ IsSome(store[key].value)
                  /\ is_expired(store[key], now)
                  /\ resp = handle_get(Db, role, key, now).resp)
                 => /\ strong = Err(KeyNotFound(key))
                    /\ soft = Ok(GetResult(Unwrap(store[key].value), store[key].version, TRUE))]_vars

\* The node answered a get for an entry whose TTL had passed: the response carried
\* the value with X-Expired and the call returned KeyNotFound.
C25_Witness ==
    /\ Returns
    /\ call.method = "get"
    /\ call.key \in DOMAIN store
    /\ IsSome(store[call.key].value)
    /\ is_expired(store[call.key], now)
    /\ last.op = "GET"
    /\ call.response = Some(last.resp)
    /\ last.resp.x_expired
    /\ Unwrap(call.result) = Err(KeyNotFound(call.key))

\* The same entry read with get_allowing_expired: the value, its version, expired.
C25_SoftWitness ==
    /\ Returns
    /\ call.method = "get_allowing_expired"
    /\ call.key \in DOMAIN store
    /\ IsSome(store[call.key].value)
    /\ last.op = "GET"
    /\ call.response = Some(last.resp)
    /\ Unwrap(call.result) =
            Ok(GetResult(Unwrap(store[call.key].value), store[call.key].version, TRUE))

\* C26: a delete call returns None when the response is 204, Some(version) with the
\* version of the ETag when the response is 200, and MissingETag when the 200 has no
\* ETag that parses.
C26_DeleteResult ==
    (Returns /\ call.method = "delete" /\ IsSome(call.response))
    => LET resp == Unwrap(call.response)
           got  == Unwrap(call.result)
       IN  /\ resp.status = 204 => got = Ok(None)
           /\ (resp.status = 200 /\ IsSome(parse_etag(resp)))
                => got = Ok(Some(Unwrap(parse_etag(resp))))
           /\ (resp.status = 200 /\ parse_etag(resp) = None)
                => got.tag = "Err" /\ got.error = MissingETag

\* What a response means to get_allowing_expired and to put: the outcome the client
\* owes for it
Expected(method, key, resp) ==
    IF resp.status = 404 THEN Err(KeyNotFound(key))
    ELSE IF resp.status \notin 200..299
    THEN Err(HttpError(resp.status,
                       IF resp.error = <<>> THEN <<"Server returned status: ", resp.status>>
                       ELSE resp.error))
    ELSE IF parse_etag(resp) = None THEN Err(MissingETag)
    ELSE IF method = "get_allowing_expired"
    THEN Ok(GetResult(body_bytes(resp), Unwrap(parse_etag(resp)), resp.x_expired))
    ELSE Ok(Unwrap(parse_etag(resp)))

\* C27: a get_allowing_expired, put or put_with_ttl call that read a response
\* returns KeyNotFound(key) for 404, HttpError(status, message) for any other status
\* outside 2xx (the message of the error JSON, or the default one), MissingETag for a
\* 2xx without an ETag that parses as u64, and otherwise the parsed version (for a
\* GET with the body and the expired flag); get differs only for an expired result.
C27_ResponseMapping ==
    (Returns /\ call.method # "delete" /\ IsSome(call.response))
    => LET resp == Unwrap(call.response)
           got  == Unwrap(call.result)
           owed == Expected(IF call.method = "get" THEN "get_allowing_expired" ELSE call.method,
                            call.key, resp)
       IN  IF call.method = "get" /\ owed.tag = "Ok" /\ owed.value.expired
           THEN got = Err(KeyNotFound(call.key))
           ELSE got = owed

\* A put reached a replica: 405 came back as HttpError with the message of the node.
C27_Witness ==
    /\ Returns
    /\ call.method = "put"
    /\ role = "Replica"
    /\ call.response = Some(last.resp)
    /\ Unwrap(call.result) = Err(HttpError(405, MsgReplica))

\* A lock timeout, 503, came back as HttpError; a 2xx without ETag as MissingETag;
\* a 2xx whose ETag is no number as MissingETag; a 404 as KeyNotFound.
C27_Busy ==
    /\ Returns /\ call.method = "get"
    /\ Unwrap(call.result) = Err(HttpError(503, MsgLock))

C27_NoETag ==
    /\ Returns /\ call.method = "put"
    /\ IsSome(call.response) /\ Unwrap(call.response).etag = Some(<<"x">>)
    /\ Unwrap(call.result) = Err(MissingETag)

C27_Version ==
    /\ Returns /\ call.method = "put_with_ttl"
    /\ call.response = Some(last.resp)
    /\ Unwrap(call.result) = Ok(2)

\* The tombstones of the store
Tombstones(st) == {key \in DOMAIN st : st[key].value = None}

\* C28: a tombstone comes into the store only by a DELETE of its key answered 200,
\* with expires_at set to the clock of that moment plus TOMBSTONE_TTL_SECS (3600) and
\* with the next value of the global counter as its version; and a tombstone in the
\* store stays as it was written. So every tombstone of every reachable state has them.
C28_Tombstones ==
    [][\A key \in Tombstones(store') :
          \/ key \in Tombstones(store) /\ store'[key] = store[key]
          \/ /\ last'.op = "DELETE" /\ last'.key = key /\ last'.resp.status = 200
             /\ store'[key] = Entry(None, next_version + 1, Some(now + TOMBSTONE_TTL_SECS))
             /\ next_version' = next_version + 1
             /\ last'.resp.etag = Some(etag_value(next_version + 1))]_vars

\* A tombstone written at clock 2 after a PUT took version 1: version 2, expiring at
\* 3602, and the clock has reached that instant.
C28_Witness ==
    /\ "k" \in Tombstones(store)
    /\ store["k"] = Entry(None, 2, Some(2 + TOMBSTONE_TTL_SECS))
    /\ now = 3602

\* The keys with a live entry, expired or not
LiveKeys(st) == {key \in DOMAIN st : IsSome(st[key].value)}

\* The i-th request served was a DELETE answered 204 and the j-th, later, is a
\* DELETE of the same key with the same token
ReplayOfNoOp(i, j) ==
    /\ i < j
    /\ served[i].call.op = "DELETE"
    /\ served[i].call.resp.status = 204
    /\ served[j].call.op = "DELETE"
    /\ served[j].call.key = served[i].call.key
    /\ served[j].call.idempotency_key = served[i].call.idempotency_key

\* The request was answered 204 and left the DbState as it found it
WasNoOp(a) == a.call.resp = NoContent /\ a.after = a.before

C30_NoChangeOnItsOwn ==
    [][/\ (last'.op = "GET" \/ now' # now) => UNCHANGED dbVars
       /\ (dbVars' # dbVars)
          => /\ next_version' = next_version + 1
             /\ last'.resp.status = 200
             /\ IsSome(last'.idempotency_key)
             /\ Unwrap(last'.idempotency_key) \notin DOMAIN idempotency_cache
             /\ \/ last'.op = "PUT"
                \/ last'.op = "DELETE" /\ last'.key \in LiveKeys(store)]_vars

\* A GET was answered with X-Expired for an entry whose TTL had passed, the clock
\* moved on, and the entry is still in the store.
C30_Witness ==
    /\ last.op = "GET"
    /\ last.resp.status = 200
    /\ last.resp.x_expired
    /\ last.key \in LiveKeys(store)
    /\ store[last.key].expires_at = Some(2)
    /\ now = 3602

\* C31: a record of the idempotency cache is never modified or removed, so the set of
\* recorded tokens only grows; and a record comes into the cache only with the fresh
\* 200 of a PUT or of a tombstone-writing DELETE, for the token of that request,
\* holding its method, its key and the version it was given.
C31_RecordsAreForever ==
    [][/\ \A t \in DOMAIN idempotency_cache :
            t \in DOMAIN idempotency_cache' /\ idempotency_cache'[t] = idempotency_cache[t]
       /\ \A t \in (DOMAIN idempotency_cache') \ (DOMAIN idempotency_cache) :
            /\ last'.op \in {"PUT", "DELETE"}
            /\ last'.resp.status = 200
            /\ last'.idempotency_key = Some(t)
            /\ next_version' = next_version + 1
            /\ last'.resp.etag = Some(etag_value(next_version'))
            /\ idempotency_cache'[t] =
                    IdempotencyRecord(last'.op, last'.key, Some(next_version'))
            /\ last'.op = "DELETE" => last'.key \in Tombstones(store')]_vars

\* Three tokens are recorded, of a PUT, of a DELETE and of a PUT, and the request
\* answered last was turned down with 422: the records are all still there.
C31_Witness ==
    /\ DOMAIN idempotency_cache = Tokens
    /\ idempotency_cache["t1"] = IdempotencyRecord("PUT", "k", Some(1))
    /\ idempotency_cache["t2"] = IdempotencyRecord("DELETE", "k", Some(2))
    /\ idempotency_cache["t3"].etag = Some(3)
    /\ last.resp.status = 422

\* Two handler tasks in flight with the same method, the same key and the same token
SameRequest(t, u) ==
    /\ t # u
    /\ tasks[t].pc # "idle" /\ tasks[u].pc # "idle"
    /\ tasks[t].op \in {"PUT", "DELETE"}
    /\ tasks[u].op = tasks[t].op
    /\ tasks[u].key = tasks[t].key
    /\ tasks[u].idempotency_key = tasks[t].idempotency_key

\* The fresh writes on record that were made with this token
WritesWith(log, token) == {i \in DOMAIN log : log[i].token = token}

\* C32: of PUTs (of DELETEs of a live key) with one token and one key that are in
\* flight together, with the token not recorded before, one alone advances
\* next_version and writes the entry. When it returns, with 200 and the ETag of its
\* version, the others have advanced nothing, the store holds its body (its
\* tombstone) under its version and the log of writes has one write for the token.
\* Each of the others that then gets the lock returns 200 with that same ETag,
\* whatever body it carries, and changes nothing.
C32_SameTokenRace ==
    [][/\ \A t \in TaskIds, u \in TaskIds :
            (SameRequest(t, u) /\ tasks[t].pc = "stored" /\ tasks'[t].pc = "idle")
            => /\ tasks[u].pc = "wait" /\ tasks[u].version = 0
               /\ last'.resp = OkWithEtag(tasks[t].version)
               /\ next_version' = tasks[t].version
               /\ store'[tasks[t].key].value = tasks[t].body
               /\ store'[tasks[t].key].version = tasks[t].version
               /\ Cardinality(WritesWith(writes', tasks[t].idempotency_key)) = 1
       /\ \A u \in TaskIds :
            (tasks[u].pc = "locked" /\ tasks'[u].pc = "idle")
            => \A i \in WritesWith(writes, tasks[u].idempotency_key) :
                  (writes[i].method = tasks[u].op /\ writes[i].key = tasks[u].key)
                  => /\ last'.resp.status = 200
                     /\ last'.resp.etag = writes[i].etag
                     /\ UNCHANGED <<store, idempotency_cache, next_version, writes>>]_vars

\* A PUT of "a" is about to return its fresh 200 while a PUT of "bmax" with the same
\* token waits for the lock.
C32_Witness ==
    \E t \in TaskIds, u \in TaskIds :
        /\ SameRequest(t, u)
        /\ tasks[t].op = "PUT" /\ tasks[t].pc = "stored" /\ tasks[t].body = Some("a")
        /\ tasks[u].pc = "wait" /\ tasks[u].body = Some("bmax")

\* The PUT that waited holds the lock after the other one wrote: it is about to replay.
C32_ReplayWitness ==
    \E u \in TaskIds :
        /\ tasks[u].op = "PUT" /\ tasks[u].pc = "locked" /\ tasks[u].body = Some("bmax")
        /\ \E i \in WritesWith(writes, tasks[u].idempotency_key) :
              writes[i].method = "PUT" /\ writes[i].value = Some("a")
        /\ store["k"].value = Some("a")

\* Two DELETEs of a live key with one token: one is about to return its fresh 200.
C32_DeleteWitness ==
    \E t \in TaskIds, u \in TaskIds :
        /\ SameRequest(t, u)
        /\ tasks[t].op = "DELETE" /\ tasks[t].pc = "stored"
        /\ tasks[u].pc = "wait"

\* The tasks inside the critical section of their handler
InCritical == {t \in TaskIds : tasks[t].pc \in {"locked", "bumped", "stored"}}

\* C33: the guards that are out are those of the handlers inside their critical
\* section: the write guard of the PUT or DELETE there, the read guards of the GETs
\* there. A handler that has returned, with a fresh or a replayed 200, a 422, a 404
\* or a 204, holds none: when no handler is inside its critical section the lock is
\* held by nobody and both a read and a write guard can be granted.
C33_GuardReleased ==
    /\ lock.writer = {t \in InCritical : tasks[t].op \in {"PUT", "DELETE"}}
    /\ lock.readers = {t \in InCritical : tasks[t].op = "GET"}
    /\ InCritical = {} => (lock = FreeLock /\ CanRead(lock) /\ CanWrite(lock))

\* A DELETE has just been turned down with 422 under the write guard; no handler is
\* running and two writes are on record.
C33_Witness ==
    /\ InCritical = {}
    /\ last.op = "DELETE" /\ last.resp.status = 422
    /\ Len(writes) = 2

\* The exit with 404 of GET
C33_NotFoundWitness == InCritical = {} /\ last.op = "GET" /\ last.resp.status = 404 /\ Len(writes) = 2

\* The exit with 204 of DELETE
C33_NoOpWitness == InCritical = {} /\ last.op = "DELETE" /\ last.resp.status = 204

\* The exit with a replayed 200: the ETag is older than the counter
C33_ReplayWitness ==
    /\ InCritical = {}
    /\ last.resp.status = 200 /\ last.op = "PUT"
    /\ last.resp.etag = Some(etag_value(1)) /\ next_version = 2

\* The window of the write overlaps the window of the GET
Overlaps(w, g) == w.client_start_ts <= g.client_ack_ts /\ w.client_ack_ts > g.client_start_ts

\* C34: once check_correctness has run, a GetOk whose (key, version) was produced by a
\* write, PUT or tombstone, whose window overlaps the GET's has no violation,
\* whatever bytes it returned and whatever newer writes the history has.
C34_OverlapIsNoViolation ==
    IsSome(violations) =>
        \A g \in GetOkRecords :
            (\E w \in WritesOf(g.key, g.outcome.version) : Overlaps(w, g))
            => ViolationsOf(g) = {}

\* The same for the writes that are PUTs
C34_OverlappingPut ==
    IsSome(violations) =>
        \A g \in GetOkRecords :
            (\E w \in WritesOf(g.key, g.outcome.version) :
                w.outcome.tag = "PutOk" /\ Overlaps(w, g))
            => ViolationsOf(g) = {}

\* A GET overlapped by the PUT of its version, which wrote other bytes, with a newer
\* write acked before the GET started: no violation was reported.
C34_PutWitness ==
    /\ IsSome(violations)
    /\ \E g \in GetOkRecords :
        /\ \E w \in WritesOf(g.key, g.outcome.version) :
                w.outcome.tag = "PutOk" /\ Overlaps(w, g) /\ w.outcome.value # g.outcome.value
        /\ NewerAcked(g) # {}
        /\ ViolationsOf(g) = {}

\* The places of the history holding a GetOk of (key, version)
GetOkAt(key, version) ==
    {i \in 1..Len(history) : /\ history[i].outcome.tag = "GetOk"
                             /\ history[i].key = key
                             /\ history[i].outcome.version = version}

\* The places of the report holding a violation of (key, version)
ViolationsAt(key, version) ==
    {j \in 1..Len(Unwrap(violations)) : /\ Unwrap(violations)[j].key = key
                                        /\ Unwrap(violations)[j].version = version}

\* The report has no more violations of a (key, version) than the history has GetOk
\* records of it: at most one per GetOk, none for any other record
OnePerGetOk ==
    \A j \in 1..Len(Unwrap(violations)) :
        LET v == Unwrap(violations)[j]
        IN  Cardinality(ViolationsAt(v.key, v.version))
                <= Cardinality(GetOkAt(v.key, v.version))

\* The GET returned the bytes of a PUT of its (key, version) acked at or before it started
MatchesAckedPut(g) ==
    \E w \in WritesOf(g.key, g.outcome.version) :
        /\ w.outcome.tag = "PutOk"
        /\ w.client_ack_ts <= g.client_start_ts
        /\ w.outcome.value = g.outcome.value

\* The GET returned the bytes of the write of its (key, version), which was a PUT
\* acked at or before it started, and no write of the key with a greater version was
\* acked before it started
MatchesLatestAckedPut(g) ==
    /\ MatchesAckedPut(g)
    /\ \A w \in WritesOf(g.key, g.outcome.version) :
          /\ w.outcome.tag = "PutOk"
          /\ w.client_ack_ts <= g.client_start_ts
          /\ w.outcome.value = g.outcome.value
    /\ NewerAcked(g) = {}

C35_MatchWitness ==
    /\ IsSome(violations)
    /\ Len(history) = 3
    /\ \E g \in GetOkRecords : MatchesLatestAckedPut(g)
    /\ \E i \in 1..3 : history[i].outcome.tag = "DeleteOk"
    /\ Unwrap(violations) = <<>>

\* Nothing is reported for an empty history, nor for a history without a GetOk.
C35_EmptyWitness == violations = Some(<<>>) /\ history = <<>>

\* The versions in the records of the idempotency cache
RecordedVersions == {Unwrap(idempotency_cache[t].etag) : t \in DOMAIN idempotency_cache}

\* C36: in every state between requests the idempotency cache has next_version
\* records, the versions in them are exactly 1..next_version, and no two tokens are
\* recorded with the same version.
C36_RecordsCountVersions ==
    /\ Cardinality(DOMAIN idempotency_cache) = next_version
    /\ RecordedVersions = 1..next_version
    /\ \A t \in DOMAIN idempotency_cache, u \in DOMAIN idempotency_cache :
          idempotency_cache[t].etag = idempotency_cache[u].etag => t = u

\* The same under interleaved handlers, in the states where no handler holds the
\* write guard (inside the critical section the counter is one ahead of the cache)
C36_BetweenWrites == lock.writer = {} => C36_RecordsCountVersions

\* Three records, of two PUTs and a DELETE on two keys, with versions 1, 2 and 3,
\* after a request that was answered without a record (a replay, a 204 or an error).
C36_Witness ==
    /\ next_version = 3
    /\ DOMAIN idempotency_cache = Tokens
    /\ \E t \in Tokens : idempotency_cache[t].method = "DELETE"
    /\ \E t \in Tokens : idempotency_cache[t].key_path = "kmax"
    /\ last.resp.etag # Some(etag_value(3))

\* C37: in every state between requests every entry of the store has a version
\* between 1 and next_version, and the idempotency cache has a record of that
\* version for the entry's key, of a PUT when the entry is live and of a DELETE when
\* it is a tombstone; the entry written last has the version next_version.
C37_EntriesHaveRecords ==
    /\ \A key \in DOMAIN store :
          /\ 1 <= store[key].version /\ store[key].version <= next_version
          /\ \E t \in DOMAIN idempotency_cache :
                idempotency_cache[t] =
                    IdempotencyRecord(IF IsSome(store[key].value) THEN "PUT" ELSE "DELETE",
                                      key, Some(store[key].version))
    /\ writes # <<>> =>
          /\ writes[Len(writes)].key \in DOMAIN store
          /\ store[writes[Len(writes)].key].version = next_version
          /\ writes[Len(writes)].etag = Some(etag_value(next_version))

\* The same under interleaved handlers, in the states where no handler holds the
\* write guard
C37_BetweenWrites == lock.writer = {} => C37_EntriesHaveRecords

\* A tombstone of version 3 at "k" written over the PUT of version 1, and a live
\* entry of version 2 at "kmax": each has its record.
C37_Witness ==
    /\ DOMAIN store = StoreKeys
    /\ store["k"].value = None /\ store["k"].version = 3
    /\ IsSome(store["kmax"].value) /\ store["kmax"].version = 2
    /\ next_version = 3

\* The state with the expires_at of the entry at `key` replaced
WithExpiry(db, key, expires_at) ==
    [db EXCEPT !.store = [@ EXCEPT ![key] = [@ EXCEPT !.expires_at = expires_at]]]

\* The values of expires_at and of the clock the answers are compared over: no TTL,
\* a TTL ahead, a TTL reached, a TTL long past
ExpiryCases == {<<None, 1>>, <<Some(2), 1>>, <<Some(2), 2>>, <<Some(3601), 3602>>}

\* The key is absent from the store or holds a tombstone
Missing(key) == key \notin DOMAIN store \/ store[key].value = None

\* C38: on a primary, in every state, for every key within the size limit: GET
\* answers 404 when the key is absent or a tombstone and 200 otherwise, and a DELETE
\* with an unrecorded token answers 204 when the key is absent or a tombstone and
\* otherwise 200, writing a tombstone under the next version; the status and the
\* ETag are the same for every expires_at of the entry and every clock, only the
\* X-Expired header of GET differs. No answer removes a key from the store, and a
\* DELETE leaves a tombstone as it is.
C38_ExpiryOnlySetsHeader ==
    role = "Primary" =>
        /\ \A key \in StoreKeys :
              LET get == GetOut(key)
              IN  /\ get.resp.status = IF Missing(key) THEN 404 ELSE 200
                  /\ get.db = Db
                  /\ key \in DOMAIN store =>
                        \A c \in ExpiryCases :
                            LET other == handle_get(WithExpiry(Db, key, c[1]), role, key, c[2]).resp
                            IN  /\ other.status = get.resp.status
                                /\ other.etag = get.resp.etag
                                /\ other.body = get.resp.body
                                /\ other.x_expired <=>
                                        (~Missing(key) /\ c[1] # None /\ c[2] >= Unwrap(c[1]))
        /\ \A req \in DeleteRequests :
              (WellFormedDelete(req) /\ TokenOf(req) \notin DOMAIN idempotency_cache)
              => LET del == DeleteOut(req)
                 IN  /\ IF Missing(req.key)
                        THEN del.resp = NoContent /\ del.db = Db
                        ELSE /\ del.resp = OkWithEtag(next_version + 1)
                             /\ del.db.next_version = next_version + 1
                             /\ del.db.store[req.key] =
                                    Entry(None, next_version + 1, Some(now + TOMBSTONE_TTL_SECS))
                     /\ DOMAIN store \subseteq DOMAIN del.db.store
                     /\ \A key \in Tombstones(store) : del.db.store[key] = store[key]
                     /\ req.key \in DOMAIN store =>
                           \A c \in ExpiryCases :
                               LET other == handle_delete(WithExpiry(Db, req.key, c[1]), role,
                                                          req.key, req.headers, c[2])
                               IN  /\ other.resp = del.resp
                                   /\ other.db.next_version = del.db.next_version
        /\ \A req \in PutRequests : DOMAIN store \subseteq DOMAIN PutOut(req).db.store

\* A tombstone written more than TOMBSTONE_TTL_SECS ago is in the store, and the
\* DELETE of its key with an unrecorded token has just been answered 204.
C38_Witness ==
    /\ role = "Primary"
    /\ last.op = "DELETE" /\ last.resp.status = 204
    /\ last.key \in Tombstones(store)
    /\ is_expired(store[last.key], now)
    /\ Unwrap(last.idempotency_key) \notin DOMAIN idempotency_cache

\* A GET of that tombstone was answered 404.
C38_OldTombstoneGet ==
    /\ role = "Primary"
    /\ last.op = "GET" /\ last.resp.status = 404
    /\ last.key \in Tombstones(store)
    /\ is_expired(store[last.key], now)

\* A live entry whose TTL has passed, just read with X-Expired, and a token that is
\* not recorded: the DELETE with it writes a tombstone.
C38_ExpiredDataWitness ==
    /\ role = "Primary"
    /\ last.op = "GET" /\ last.resp.status = 200 /\ last.resp.x_expired
    /\ last.key \in LiveKeys(store)
    /\ is_expired(store[last.key], now)
    /\ Tokens \ DOMAIN idempotency_cache # {}

\* The requests that carry the token
PutsWith(token) ==
    {req \in PutRequests \cup OverLimitPutRequests : req.headers.idempotency_key = Some(token)}

DeletesWith(token) == {req \in DeleteRequests : req.headers.idempotency_key = Some(token)}

\* The outcome is that of a fresh request: not 422, no replay, and either the fresh
\* 200 with the next version or an answer that leaves the state as it is
ProcessedAsFresh(out) ==
    /\ out.resp.status # 422
    /\ out.resp.status = 200 => (out.fresh /\ out.resp = OkWithEtag(next_version + 1))
    /\ out.resp.status # 200 => (~out.fresh /\ out.db = Db)

\* C39: the recorded tokens are exactly the tokens a fresh 200 was given for: a
\* request answered 400, 405, 413, 422 or 204 records nothing. So while no fresh 200
\* has been given for a token, whatever requests carried it before, every PUT and
\* every DELETE with it, on any key, is processed as a fresh request: it is not
\* answered 422 nor with a replay.
C39_TokenConsumedByFresh200 ==
    /\ DOMAIN idempotency_cache = UsedTokens
    /\ \A token \in Tokens :
          /\ \A req \in PutsWith(token) :
                PutOut(req).resp.status # 200 =>
                    PutOut(req).db.idempotency_cache = idempotency_cache
          /\ \A req \in DeletesWith(token) :
                DeleteOut(req).resp.status # 200 =>
                    DeleteOut(req).db.idempotency_cache = idempotency_cache
    /\ \A token \in Tokens \ UsedTokens :
          /\ \A req \in PutsWith(token) : ProcessedAsFresh(PutOut(req))
          /\ \A req \in DeletesWith(token) : ProcessedAsFresh(DeleteOut(req))

\* The same under interleaved handlers, where a request may end in 503: the recorded
\* tokens are those of the fresh 200 responses, and a 503 leaves the state as it is.
C39_AfterLockTimeout ==
    [][/\ DOMAIN idempotency_cache' = {writes'[i].token : i \in 1..Len(writes')}
       /\ (last' # last /\ last'.resp.status \in {400, 405, 503, 204}) => UNCHANGED dbVars
       /\ \A t \in TaskIds :
            (/\ tasks[t].pc = "locked" /\ tasks[t].op \in {"PUT", "DELETE"}
             /\ tasks[t].idempotency_key \notin DOMAIN idempotency_cache)
            => \/ tasks'[t].pc = "locked"
               \/ tasks'[t].pc = "bumped"
               \/ tasks'[t].pc = "idle" /\ last'.resp = NoContent]_vars

\* A token was sent on a PUT that ended in 400 and is not recorded, while another
\* token is recorded for the same key.
C39_Witness ==
    /\ last.op = "PUT" /\ last.resp.status = 400
    /\ last.idempotency_key = Some("t1")
    /\ "t1" \notin DOMAIN idempotency_cache
    /\ \E token \in Tokens : /\ token \in DOMAIN idempotency_cache
                             /\ idempotency_cache[token].key_path = last.key

\* The same after a no-op DELETE answered 204
C39_NoOpWitness ==
    /\ last.op = "DELETE" /\ last.resp.status = 204
    /\ Unwrap(last.idempotency_key) \notin DOMAIN idempotency_cache
    /\ idempotency_cache # EmptyMap

\* The same on a replica, which answers 405
C39_ReplicaWitness ==
    /\ last.op = "DELETE" /\ last.resp.status = 405
    /\ IsSome(last.idempotency_key)
    /\ idempotency_cache = EmptyMap

\* The same after a 503: the write guard was not granted in time
C39_TimeoutWitness ==
    /\ last.op = "PUT" /\ last.resp.status = 503
    /\ Unwrap(last.idempotency_key) \notin DOMAIN idempotency_cache
    /\ idempotency_cache # EmptyMap

\* The PUT reaches handle_put with a body beyond MAX_VALUE_SIZE or with an X-TTL
\* that is not a u64
FailsValidation(req) ==
    /\ BodyLen(req.body) <= DefaultBodyLimit
    /\ \/ BodyLen(req.body) > MAX_VALUE_SIZE
       \/ IsSome(req.headers.x_ttl) /\ parse_u64(Unwrap(req.headers.x_ttl)) = None

\* C40: on a primary, a PUT that reaches the handler with a token recorded by a PUT
\* of the same key and with a body beyond MAX_VALUE_SIZE or an unparsable X-TTL is
\* answered 400, not the recorded 200; a DELETE with a token recorded for another
\* method or another key is answered 422, also when its key is absent or a
\* tombstone; neither changes the state.
C40_ValidationPrecedesReplay ==
    role = "Primary" =>
        \A token \in DOMAIN idempotency_cache :
            /\ \A req \in PutsWith(token) :
                  (/\ FailsValidation(req)
                   /\ idempotency_cache[token].method = "PUT"
                   /\ idempotency_cache[token].key_path = req.key)
                  => /\ PutOut(req).resp.status = 400
                     /\ PutOut(req).resp.etag = None
                     /\ PutOut(req).db = Db
            /\ \A req \in DeletesWith(token) :
                  (/\ WellFormedDelete(req)
                   /\ \/ idempotency_cache[token].method # "DELETE"
                      \/ idempotency_cache[token].key_path # req.key)
                  => /\ DeleteOut(req).resp = error_response(422, MsgMismatch)
                     /\ DeleteOut(req).db = Db

\* A PUT with an unparsable X-TTL or an oversized body has just been answered 400
\* although its token is recorded by a PUT of its key.
C40_Witness ==
    /\ last.op = "PUT" /\ last.resp.status = 400
    /\ IsSome(last.idempotency_key)
    /\ Unwrap(last.idempotency_key) \in DOMAIN idempotency_cache
    /\ idempotency_cache[Unwrap(last.idempotency_key)] =
            IdempotencyRecord("PUT", last.key, Some(1))
    /\ next_version = 2

\* A DELETE of a tombstoned key has just been answered 422: its token is recorded
\* by the PUT of the key.
C40_TombstoneWitness ==
    /\ last.op = "DELETE" /\ last.resp.status = 422
    /\ last.key \in Tombstones(store)
    /\ idempotency_cache[Unwrap(last.idempotency_key)].method = "PUT"
    /\ idempotency_cache[Unwrap(last.idempotency_key)].key_path = last.key

\* A DELETE of an absent key has just been answered 422: its token is recorded for
\* another key.
C40_AbsentWitness ==
    /\ last.op = "DELETE" /\ last.resp.status = 422
    /\ last.key \notin DOMAIN store
    /\ idempotency_cache[Unwrap(last.idempotency_key)].key_path # last.key

====
